---- MODULE Spec2Model ----
(***************************************************************************)
(* Model of the parachain-staking pallet (pallets/parachain-staking):      *)
(* candidates, delegations, rounds, collator selection, exposure           *)
(* snapshots and delayed reward payouts.                                   *)
(*                                                                         *)
(* Storage items are the variables.  Every dispatchable and every hook is  *)
(* one action.  Procedures that the pallet composes sequentially           *)
(* (new_session = update; prepare_staking_payouts; select_top_candidates;  *)
(* handle_delayed_payouts) are operators from a storage record to a        *)
(* storage record, composed in the same order as the code.                 *)
(*                                                                         *)
(* Balances are scaled down (one unit of the model stands for one stake    *)
(* unit); Perbill and Percent keep their real denominators.                *)
(***************************************************************************)
EXTENDS Integers, Sequences, FiniteSets, TLC

(***************************************************************************)
(* Bounds of the model.                                                    *)
(***************************************************************************)
NumAccounts == 5
MaxRound == 5
MaxBlock == 5

Accounts == 1..NumAccounts
\* the all-zero AccountId that genesis stores as the parachain bond account
ZeroAccount == 0
Rounds == 0..(MaxRound + 1)

(***************************************************************************)
(* Configuration of the pallet (Config trait), scaled down.                *)
(***************************************************************************)
MinBlocksPerRound == 2
LeaveCandidatesDelay == 2
CandidateBondLessDelay == 2
RevokeDelegationDelay == 2
DelegationBondLessDelay == 2
RewardPaymentDelay == 2
MinSelectedCandidates == 2
MaxInvulnerables == 2
MaxTopDelegationsPerCandidate == 1
MaxBottomDelegationsPerCandidate == 1
MaxDelegationsPerDelegator == 2
MinCollatorStk == 3
MinCandidateStk == 2
MinDelegation == 1
MinDelegatorStk == 1
\* points per authored block
PointsPerBlock == 20
\* limit handed to AtStake::clear_prefix
ClearPrefixLimit == 20
\* genesis
GenesisBlocksPerRound == 2
InitialBalance == 6

PerbillMax == 1000000000
PercentMax == 100

(***************************************************************************)
(* Maps (StorageMap with OptionQuery / ValueQuery): functions whose domain *)
(* is the set of stored keys.                                              *)
(***************************************************************************)
EmptyMap == [k \in {} |-> 0]
Put(f, k, v) == [x \in (DOMAIN f) \cup {k} |-> IF x = k THEN v ELSE f[x]]
Remove(f, k) == [x \in (DOMAIN f) \ {k} |-> f[x]]
Has(f, k) == k \in DOMAIN f
GetOr(f, k, d) == IF k \in DOMAIN f THEN f[k] ELSE d

Min2(a, b) == IF a <= b THEN a ELSE b
SatSub(a, b) == IF a >= b THEN a - b ELSE 0

RECURSIVE SumSeq(_)
SumSeq(s) == IF s = <<>> THEN 0 ELSE Head(s).amount + SumSeq(Tail(s))

RECURSIVE SumOver(_, _)
SumOver(S, f) == IF S = {} THEN 0
                 ELSE LET x == CHOOSE y \in S : TRUE IN f[x] + SumOver(S \ {x}, f)

SeqSet(s) == {s[i] : i \in 1..Len(s)}
Owners(s) == {s[i].owner : i \in 1..Len(s)}
RemoveAt(s, i) == SubSeq(s, 1, i - 1) \o SubSeq(s, i + 1, Len(s))
InsertAt(s, i, x) == SubSeq(s, 1, i - 1) \o <<x>> \o SubSeq(s, i, Len(s))
IndexOfOwner(s, o) == CHOOSE i \in 1..Len(s) : s[i].owner = o
RemoveOwner(s, o) == IF o \in Owners(s) THEN RemoveAt(s, IndexOfOwner(s, o)) ELSE s
BondOf(s, o) == s[IndexOfOwner(s, o)]


(***************************************************************************)
(* Perbill / Percent arithmetic as used by the pallet.  Products with      *)
(* PerbillMax are split so that no intermediate value exceeds 2^31.        *)
(***************************************************************************)
\* Perbill::from_rational(p, q): floor(p * 10^9 / q); one() when q = 0 or p > q
PerbillFromRational(p, q) ==
    IF q = 0 \/ p > q THEN PerbillMax
    ELSE LET t1 == p * 100000
             q1 == t1 \div q
             r1 == t1 % q
         IN q1 * 10000 + ((r1 * 10000) \div q)

\* <<quotient, remainder>> of part * x by 10^9
PerbillQuotRem(part, x) ==
    LET a == part \div 100000
        b == part % 100000
        n == b * x
        M == a * x + (n \div 100000)
    IN << M \div 10000, (M % 10000) * 100000 + (n % 100000) >>

\* `perbill * balance` (Mul impl: rounds to nearest, ties down)
PerbillMul(part, x) ==
    LET qr == PerbillQuotRem(part, x)
    IN IF qr[2] > PerbillMax \div 2 THEN qr[1] + 1 ELSE qr[1]

\* `percent * balance` (Mul impl: rounds to nearest, ties down)
PercentMul(pct, x) ==
    LET p == pct * x
    IN IF p % PercentMax > PercentMax \div 2 THEN (p \div PercentMax) + 1 ELSE p \div PercentMax

\* Percent::mul_ceil
PercentMulCeil(pct, x) ==
    LET p == pct * x
    IN IF p % PercentMax > 0 THEN (p \div PercentMax) + 1 ELSE p \div PercentMax

(***************************************************************************)
(* Bonds, ordered containers.                                              *)
(***************************************************************************)
Bond(o, a) == [owner |-> o, amount |-> a]

\* order of the candidate pool: (amount asc, owner asc)
PoolLess(x, y) == x.amount < y.amount \/ (x.amount = y.amount /\ x.owner < y.owner)

\* OrderedSet::insert: FALSE (set unchanged) when the owner is present
OrderedSetContains(set, o) == o \in Owners(set)
OrderedSetInsert(set, b) ==
    IF OrderedSetContains(set, b.owner) THEN set
    ELSE LET k == Cardinality({i \in 1..Len(set) : PoolLess(set[i], b)})
         IN InsertAt(set, k + 1, b)
\* OrderedSet::remove by owner
OrderedSetRemove(set, o) == RemoveOwner(set, o)

IsPoolSorted(set) == \A i, j \in 1..Len(set) : i < j => PoolLess(set[i], set[j])

\* slice::sort_by(|a, b| a.amount.cmp(&b.amount)): a stable sort by amount
RECURSIVE StableSortByAmount(_)
StableSortByAmount(s) ==
    IF s = <<>> THEN <<>>
    ELSE LET rest == StableSortByAmount(SubSeq(s, 1, Len(s) - 1))
             x == s[Len(s)]
             k == Cardinality({i \in 1..Len(rest) : rest[i].amount <= x.amount})
         IN InsertAt(rest, k + 1, x)

Reverse(s) == [i \in 1..Len(s) |-> s[Len(s) + 1 - i]]
Take(s, n) == SubSeq(s, 1, Min2(n, Len(s)))

RECURSIVE SortedSeqOfSet(_)
\* Vec::sort on account ids
SortedSeqOfSet(S) ==
    IF S = {} THEN <<>>
    ELSE LET m == CHOOSE x \in S : \A y \in S : x <= y
         IN <<m>> \o SortedSeqOfSet(S \ {m})


(***************************************************************************)
(* State: the storage items of the pallet, the ledger (free balance and    *)
(* the two staking locks per account), the block number, and what the last *)
(* call observed (its events, its result).                                 *)
(***************************************************************************)
VARIABLES
    Round,                        \* RoundInfo {current, first, length}
    CandidateInfo,                \* account -> CandidateMetadata
    DelegatorState,               \* account -> Delegator
    DelegationScheduledRequests,  \* candidate -> Seq(ScheduledRequest)
    AutoCompoundingDelegations,   \* candidate -> Seq(AutoCompoundConfig)
    TopDelegations,               \* candidate -> Delegations
    BottomDelegations,            \* candidate -> Delegations
    CandidatePool,                \* OrderedSet<Bond>
    SelectedCandidates,           \* Vec<AccountId>
    Total,                        \* Balance
    AtStake,                      \* <<round, account>> -> CollatorSnapshot
    DelayedPayouts,               \* round -> DelayedPayout
    Staked,                       \* round -> Balance
    Points,                       \* round -> RewardPoint
    AwardedPts,                   \* <<round, account>> -> RewardPoint
    TotalSelected,                \* u32
    CollatorCommission,           \* Perbill
    ParachainBondInfo,            \* {account, percent}
    InflationConfig,              \* InflationInfo {expect, annual, round}
    InvulnerableCandidates,       \* Vec<AccountId>
    max_top_delegations_per_candidate,  \* T::MaxTopDelegationsPerCandidate::get()
    free_balance,                 \* ledger: account -> free balance
    collator_lock,                \* ledger: account -> COLLATOR_LOCK_ID amount
    delegator_lock,               \* ledger: account -> DELEGATOR_LOCK_ID amount
    block_number,                 \* frame_system block number
    events,                       \* events deposited by the last call
    rewarded,                     \* round -> sum of Rewarded amounts paid for it
    lastOp                        \* the last call: name, arguments, result

storageVars == << Round, CandidateInfo, DelegatorState, DelegationScheduledRequests,
                  AutoCompoundingDelegations, TopDelegations, BottomDelegations,
                  CandidatePool, SelectedCandidates, Total, AtStake, DelayedPayouts,
                  Staked, Points, AwardedPts, TotalSelected, CollatorCommission,
                  ParachainBondInfo, InflationConfig, InvulnerableCandidates,
                  max_top_delegations_per_candidate,
                  free_balance, collator_lock, delegator_lock, events, rewarded >>
vars == << storageVars, block_number, lastOp >>

\* storage items and ledger, without the events of the last call
chainState == << Round, CandidateInfo, DelegatorState, DelegationScheduledRequests,
                 AutoCompoundingDelegations, TopDelegations, BottomDelegations,
                 CandidatePool, SelectedCandidates, Total, AtStake, DelayedPayouts,
                 Staked, Points, AwardedPts, TotalSelected, CollatorCommission,
                 ParachainBondInfo, InflationConfig, InvulnerableCandidates,
                 max_top_delegations_per_candidate,
                 free_balance, collator_lock, delegator_lock >>

\* the storage as one record, so that procedures compose
Storage ==
    [ Round |-> Round, CandidateInfo |-> CandidateInfo, DelegatorState |-> DelegatorState,
      DelegationScheduledRequests |-> DelegationScheduledRequests,
      AutoCompoundingDelegations |-> AutoCompoundingDelegations,
      TopDelegations |-> TopDelegations, BottomDelegations |-> BottomDelegations,
      CandidatePool |-> CandidatePool, SelectedCandidates |-> SelectedCandidates,
      Total |-> Total, AtStake |-> AtStake, DelayedPayouts |-> DelayedPayouts,
      Staked |-> Staked, Points |-> Points, AwardedPts |-> AwardedPts,
      TotalSelected |-> TotalSelected, CollatorCommission |-> CollatorCommission,
      ParachainBondInfo |-> ParachainBondInfo, InflationConfig |-> InflationConfig,
      InvulnerableCandidates |-> InvulnerableCandidates,
      max_top_delegations_per_candidate |-> max_top_delegations_per_candidate,
      free_balance |-> free_balance,
      collator_lock |-> collator_lock, delegator_lock |-> delegator_lock,
      events |-> <<>>, rewarded |-> rewarded ]

Commit(st) ==
    /\ Round' = st.Round
    /\ CandidateInfo' = st.CandidateInfo
    /\ DelegatorState' = st.DelegatorState
    /\ DelegationScheduledRequests' = st.DelegationScheduledRequests
    /\ AutoCompoundingDelegations' = st.AutoCompoundingDelegations
    /\ TopDelegations' = st.TopDelegations
    /\ BottomDelegations' = st.BottomDelegations
    /\ CandidatePool' = st.CandidatePool
    /\ SelectedCandidates' = st.SelectedCandidates
    /\ Total' = st.Total
    /\ AtStake' = st.AtStake
    /\ DelayedPayouts' = st.DelayedPayouts
    /\ Staked' = st.Staked
    /\ Points' = st.Points
    /\ AwardedPts' = st.AwardedPts
    /\ TotalSelected' = st.TotalSelected
    /\ CollatorCommission' = st.CollatorCommission
    /\ ParachainBondInfo' = st.ParachainBondInfo
    /\ InflationConfig' = st.InflationConfig
    /\ InvulnerableCandidates' = st.InvulnerableCandidates
    /\ max_top_delegations_per_candidate' = st.max_top_delegations_per_candidate
    /\ free_balance' = st.free_balance
    /\ collator_lock' = st.collator_lock
    /\ delegator_lock' = st.delegator_lock
    /\ events' = st.events
    /\ rewarded' = st.rewarded

Emit(st, ev) == [st EXCEPT !.events = Append(@, ev)]

\* Option<T>
None == <<>>
Some(x) == <<x>>

Op(name, who, target, amount, hint, err, ret) ==
    [op |-> name, who |-> who, target |-> target, amount |-> amount, hint |-> hint,
     err |-> err, ret |-> ret]

(***************************************************************************)
(* Ledger (Currency): locks are set to a value; deposit_into_existing      *)
(* mints only into an account that exists.                                 *)
(***************************************************************************)
AccountExists(st, a) == a \in DOMAIN st.free_balance /\ st.free_balance[a] > 0
SetCollatorLock(st, a, amt) == [st EXCEPT !.collator_lock[a] = amt]
RemoveCollatorLock(st, a) == [st EXCEPT !.collator_lock[a] = 0]
SetDelegatorLock(st, a, amt) == [st EXCEPT !.delegator_lock[a] = amt]
RemoveDelegatorLock(st, a) == [st EXCEPT !.delegator_lock[a] = 0]
DepositIntoExisting(st, a, amt) == [st EXCEPT !.free_balance[a] = @ + amt]

is_delegator(st, acc) == Has(st.DelegatorState, acc)
is_candidate(st, acc) == Has(st.CandidateInfo, acc)

get_delegator_stakable_free_balance(st, acc) ==
    IF is_delegator(st, acc) THEN SatSub(st.free_balance[acc], st.DelegatorState[acc].total)
    ELSE st.free_balance[acc]

get_collator_stakable_free_balance(st, acc) ==
    IF is_candidate(st, acc) THEN SatSub(st.free_balance[acc], st.CandidateInfo[acc].bond)
    ELSE st.free_balance[acc]

(***************************************************************************)
(* CandidateMetadata                                                       *)
(***************************************************************************)
CandidateMetadataNew(bond) ==
    [bond |-> bond, total_counted |-> bond, delegation_count |-> 0,
     status |-> "Active", exit |-> 0, request |-> None]

EmptyDelegations == [delegations |-> <<>>, total |-> 0]

IsActive(c) == c.status = "Active"
IsLeaving(c) == c.status = "Leaving"

\* mutation: the pool entry keeps its amount
update_activeKept(st, candidate, total) == st

update_active(st, candidate, total) ==
    [st EXCEPT !.CandidatePool =
        OrderedSetInsert(OrderedSetRemove(@, candidate), Bond(candidate, total))]


(***************************************************************************)
(* Candidate dispatchables.  For each call, <name>Err gives the error the  *)
(* guards of the code return, in the order the code tests them ("Ok" when  *)
(* none fails), and <name>Do the storage after a successful call.  A call  *)
(* that returns an error commits nothing.                                  *)
(***************************************************************************)
\* mutation: the stakable balance is not tested
join_candidatesErrAnyBalance(st, acc, bond, candidate_count) ==
    IF is_candidate(st, acc) THEN "CandidateExists"
    ELSE IF is_delegator(st, acc) THEN "DelegatorExists"
    ELSE IF bond < MinCandidateStk THEN "CandidateBondBelowMin"
    ELSE IF candidate_count < Len(st.CandidatePool)
        THEN "TooLowCandidateCountWeightHintJoinCandidates"
    ELSE "Ok"

\* mutation: the candidate_count hint is not tested
join_candidatesErrAnyCount(st, acc, bond, candidate_count) ==
    IF is_candidate(st, acc) THEN "CandidateExists"
    ELSE IF is_delegator(st, acc) THEN "DelegatorExists"
    ELSE IF bond < MinCandidateStk THEN "CandidateBondBelowMin"
    ELSE IF get_collator_stakable_free_balance(st, acc) < bond THEN "InsufficientBalance"
    ELSE "Ok"

\* mutation: a delegator may join the candidates
join_candidatesErrAnyRole(st, acc, bond, candidate_count) ==
    IF is_candidate(st, acc) THEN "CandidateExists"
    ELSE IF bond < MinCandidateStk THEN "CandidateBondBelowMin"
    ELSE IF candidate_count < Len(st.CandidatePool)
        THEN "TooLowCandidateCountWeightHintJoinCandidates"
    ELSE IF OrderedSetContains(st.CandidatePool, acc) THEN "CandidateExists"
    ELSE IF get_collator_stakable_free_balance(st, acc) < bond THEN "InsufficientBalance"
    ELSE "Ok"

join_candidatesErr(st, acc, bond, candidate_count) ==
    IF is_candidate(st, acc) THEN "CandidateExists"
    ELSE IF is_delegator(st, acc) THEN "DelegatorExists"
    ELSE IF bond < MinCandidateStk THEN "CandidateBondBelowMin"
    ELSE IF candidate_count < Len(st.CandidatePool)
        THEN "TooLowCandidateCountWeightHintJoinCandidates"
    ELSE IF OrderedSetContains(st.CandidatePool, acc) THEN "CandidateExists"
    ELSE IF get_collator_stakable_free_balance(st, acc) < bond THEN "InsufficientBalance"
    ELSE "Ok"

join_candidatesTotal(total, bond) == total + bond

join_candidatesDo(st, acc, bond) ==
    LET candidates == OrderedSetInsert(st.CandidatePool, Bond(acc, bond))
        new_total == join_candidatesTotal(st.Total, bond)
        s1 == SetCollatorLock(st, acc, bond)
        s2 == [s1 EXCEPT !.CandidateInfo = Put(@, acc, CandidateMetadataNew(bond)),
                         !.TopDelegations = Put(@, acc, EmptyDelegations),
                         !.BottomDelegations = Put(@, acc, EmptyDelegations),
                         !.CandidatePool = candidates,
                         !.Total = new_total]
    IN Emit(s2, <<"JoinedCollatorCandidates", acc, bond, new_total>>)

schedule_leave_candidatesErr(st, collator, candidate_count) ==
    IF ~is_candidate(st, collator) THEN "CandidateDNE"
    ELSE IF IsLeaving(st.CandidateInfo[collator]) THEN "CandidateAlreadyLeaving"
    ELSE IF candidate_count < Len(st.CandidatePool)
        THEN "TooLowCandidateCountToLeaveCandidates"
    ELSE "Ok"

\* CandidateMetadata::schedule_leave
schedule_leave(st, state) ==
    [state EXCEPT !.status = "Leaving", !.exit = st.Round.current + LeaveCandidatesDelay]

schedule_leave_candidatesPool(pool, collator) == OrderedSetRemove(pool, collator)

schedule_leave_candidatesDo(st, collator) ==
    LET state == schedule_leave(st, st.CandidateInfo[collator])
        s1 == [st EXCEPT !.CandidatePool = schedule_leave_candidatesPool(@, collator),
                         !.CandidateInfo[collator] = state]
    IN Emit(s1, <<"CandidateScheduledExit", st.Round.current, collator, state.exit>>)

cancel_leave_candidatesErr(st, collator, candidate_count) ==
    IF ~is_candidate(st, collator) THEN "CandidateDNE"
    ELSE IF ~IsLeaving(st.CandidateInfo[collator]) THEN "CandidateNotLeaving"
    ELSE IF Len(st.CandidatePool) > candidate_count
        THEN "TooLowCandidateCountWeightHintCancelLeaveCandidates"
    ELSE IF OrderedSetContains(st.CandidatePool, collator) THEN "AlreadyActive"
    ELSE "Ok"

\* CandidateMetadata::go_online / go_offline
go_online_state(state) == [state EXCEPT !.status = "Active", !.exit = 0]
go_offline_state(state) == [state EXCEPT !.status = "Idle", !.exit = 0]

cancel_leave_candidatesDo(st, collator) ==
    LET state == go_online_state(st.CandidateInfo[collator])
        s1 == [st EXCEPT !.CandidatePool =
                            OrderedSetInsert(@, Bond(collator, state.total_counted)),
                         !.CandidateInfo[collator] = state]
    IN Emit(s1, <<"CancelledCandidateExit", collator>>)

go_offlineErr(st, collator) ==
    IF ~is_candidate(st, collator) THEN "CandidateDNE"
    ELSE IF ~IsActive(st.CandidateInfo[collator]) THEN "AlreadyOffline"
    ELSE "Ok"

\* mutation: the candidate stays in the pool
go_offlinePoolKept(pool, collator) == pool

go_offlinePool(pool, collator) == OrderedSetRemove(pool, collator)

go_offlineDo(st, collator) ==
    LET state == go_offline_state(st.CandidateInfo[collator])
        s1 == [st EXCEPT !.CandidatePool = go_offlinePool(@, collator),
                         !.CandidateInfo[collator] = state]
    IN Emit(s1, <<"CandidateWentOffline", collator>>)

\* mutation: a Leaving candidate may go online
go_onlineErrAnyStatus(st, collator) ==
    IF ~is_candidate(st, collator) THEN "CandidateDNE"
    ELSE IF IsActive(st.CandidateInfo[collator]) THEN "AlreadyActive"
    ELSE IF OrderedSetContains(st.CandidatePool, collator) THEN "AlreadyActive"
    ELSE "Ok"

go_onlineErr(st, collator) ==
    IF ~is_candidate(st, collator) THEN "CandidateDNE"
    ELSE IF IsActive(st.CandidateInfo[collator]) THEN "AlreadyActive"
    ELSE IF IsLeaving(st.CandidateInfo[collator]) THEN "CannotGoOnlineIfLeaving"
    ELSE IF OrderedSetContains(st.CandidatePool, collator) THEN "AlreadyActive"
    ELSE "Ok"

go_onlineDo(st, collator) ==
    LET state == go_online_state(st.CandidateInfo[collator])
        s1 == [st EXCEPT !.CandidatePool =
                            OrderedSetInsert(@, Bond(collator, state.total_counted)),
                         !.CandidateInfo[collator] = state]
    IN Emit(s1, <<"CandidateBackOnline", collator>>)

candidate_bond_moreErr(st, collator, more) ==
    IF ~is_candidate(st, collator) THEN "CandidateDNE"
    ELSE IF get_collator_stakable_free_balance(st, collator) < more THEN "InsufficientBalance"
    ELSE "Ok"

\* CandidateMetadata::bond_more, then the pool update of candidate_bond_more
candidate_bond_moreDo(st, collator, more) ==
    LET old == st.CandidateInfo[collator]
        state == [old EXCEPT !.bond = @ + more, !.total_counted = @ + more]
        s1 == SetCollatorLock([st EXCEPT !.Total = @ + more], collator, state.bond)
        s2 == Emit(s1, <<"CandidateBondedMore", collator, more, state.bond>>)
        s3 == [s2 EXCEPT !.CandidateInfo[collator] = state]
    IN IF IsActive(state) THEN update_active(s3, collator, state.total_counted) ELSE s3

schedule_candidate_bond_lessErr(st, collator, less) ==
    IF ~is_candidate(st, collator) THEN "CandidateDNE"
    ELSE IF st.CandidateInfo[collator].request # None
        THEN "PendingCandidateRequestAlreadyExists"
    ELSE IF st.CandidateInfo[collator].bond <= less THEN "CandidateBondBelowMin"
    ELSE IF st.CandidateInfo[collator].bond - less < MinCandidateStk
        THEN "CandidateBondBelowMin"
    ELSE "Ok"

schedule_candidate_bond_lessDo(st, collator, less) ==
    LET when == st.Round.current + CandidateBondLessDelay
        s1 == [st EXCEPT !.CandidateInfo[collator].request =
                            Some([amount |-> less, when_executable |-> when])]
    IN Emit(s1, <<"CandidateBondLessRequested", collator, less, when>>)

execute_candidate_bond_lessErr(st, candidate) ==
    IF ~is_candidate(st, candidate) THEN "CandidateDNE"
    ELSE IF st.CandidateInfo[candidate].request = None THEN "PendingCandidateRequestsDNE"
    ELSE IF st.CandidateInfo[candidate].request[1].when_executable > st.Round.current
        THEN "PendingCandidateRequestNotDueYet"
    ELSE "Ok"

execute_candidate_bond_lessDo(st, candidate) ==
    LET old == st.CandidateInfo[candidate]
        amount == old.request[1].amount
        state == [old EXCEPT !.bond = SatSub(@, amount),
                             !.total_counted = SatSub(@, amount),
                             !.request = None]
        s1 == SetCollatorLock([st EXCEPT !.Total = SatSub(@, amount)], candidate, state.bond)
        s2 == IF IsActive(state) THEN update_active(s1, candidate, state.total_counted) ELSE s1
        s3 == Emit(s2, <<"CandidateBondedLess", candidate, amount, state.bond>>)
    IN [s3 EXCEPT !.CandidateInfo[candidate] = state]

cancel_candidate_bond_lessErr(st, collator) ==
    IF ~is_candidate(st, collator) THEN "CandidateDNE"
    ELSE IF st.CandidateInfo[collator].request = None THEN "PendingCandidateRequestsDNE"
    ELSE "Ok"

cancel_candidate_bond_lessDo(st, collator) ==
    LET req == st.CandidateInfo[collator].request[1]
        s1 == [st EXCEPT !.CandidateInfo[collator].request = None]
    IN Emit(s1, <<"CancelledCandidateBondLess", collator, req.amount, req.when_executable>>)


(***************************************************************************)
(* Delegation buckets (Delegations, CandidateMetadata bucket methods).     *)
(* Top is kept sorted by amount descending, bottom by amount ascending;    *)
(* equal amounts are ordered by owner.                                     *)
(***************************************************************************)
TopLess(x, y) == x.amount > y.amount \/ (x.amount = y.amount /\ x.owner < y.owner)

InsertTop(s, b) ==
    LET k == Cardinality({i \in 1..Len(s) : TopLess(s[i], b)}) IN InsertAt(s, k + 1, b)
InsertBottom(s, b) ==
    LET k == Cardinality({i \in 1..Len(s) : PoolLess(s[i], b)}) IN InsertAt(s, k + 1, b)

TopOf(st, c) == st.TopDelegations[c].delegations
BottomOf(st, c) == st.BottomDelegations[c].delegations

DelegationsOf(dels) == [delegations |-> dels, total |-> SumSeq(dels)]

TopFull(st, c) == Len(TopOf(st, c)) = st.max_top_delegations_per_candidate
BottomFull(st, c) == Len(BottomOf(st, c)) = MaxBottomDelegationsPerCandidate
lowest_top_delegation_amount(st, c) ==
    IF TopOf(st, c) = <<>> THEN 0 ELSE TopOf(st, c)[Len(TopOf(st, c))].amount
lowest_bottom_delegation_amount(st, c) ==
    IF BottomOf(st, c) = <<>> THEN 0 ELSE BottomOf(st, c)[1].amount
highest_bottom_delegation_amount(st, c) ==
    IF BottomOf(st, c) = <<>> THEN 0 ELSE BottomOf(st, c)[Len(BottomOf(st, c))].amount

\* CandidateMetadata::reset_top_data: total_counted follows the top bucket,
\* and the pool entry follows total_counted while the candidate is active
reset_top_data(st, c, dels) ==
    LET old == st.CandidateInfo[c]
        new_counted == old.bond + SumSeq(dels)
        s1 == [st EXCEPT !.TopDelegations[c] = DelegationsOf(dels),
                         !.CandidateInfo[c].total_counted = new_counted]
    IN IF old.total_counted # new_counted /\ IsActive(old)
       THEN update_active(s1, c, new_counted) ELSE s1

reset_bottom_data(st, c, dels) == [st EXCEPT !.BottomDelegations[c] = DelegationsOf(dels)]

\* mutation: the lock is left as it was
adjust_bond_lockKept(st, d, total) == st

\* Delegator::adjust_bond_lock: the lock is reconciled to the delegator's total
adjust_bond_lock(st, d, total) ==
    IF total = 0 THEN RemoveDelegatorLock(st, d) ELSE SetDelegatorLock(st, d, total)

\* removes the pending request of (collator, delegator), if any, and its less_total
RequestsOf(st, c) == st.DelegationScheduledRequests[c]
HasRequest(st, c, d) == \E i \in 1..Len(RequestsOf(st, c)) : RequestsOf(st, c)[i].delegator = d
RequestOf(st, c, d) ==
    RequestsOf(st, c)[CHOOSE i \in 1..Len(RequestsOf(st, c)) : RequestsOf(st, c)[i].delegator = d]
RemoveRequest(reqs, d) ==
    IF \E i \in 1..Len(reqs) : reqs[i].delegator = d
    THEN RemoveAt(reqs, CHOOSE i \in 1..Len(reqs) : reqs[i].delegator = d) ELSE reqs

delegation_request_revoke_exists(st, c, d) ==
    HasRequest(st, c, d) /\ RequestOf(st, c, d).action = "Revoke"

\* AutoCompoundDelegations: per candidate a list sorted by delegator
AutoCompoundOf(st, c) == st.AutoCompoundingDelegations[c]
auto_compound(st, c, d) ==
    IF \E i \in 1..Len(AutoCompoundOf(st, c)) : AutoCompoundOf(st, c)[i].delegator = d
    THEN AutoCompoundOf(st, c)[CHOOSE i \in 1..Len(AutoCompoundOf(st, c)) :
                                  AutoCompoundOf(st, c)[i].delegator = d].value
    ELSE 0
RemoveForDelegator(cfgs, d) ==
    IF \E i \in 1..Len(cfgs) : cfgs[i].delegator = d
    THEN RemoveAt(cfgs, CHOOSE i \in 1..Len(cfgs) : cfgs[i].delegator = d) ELSE cfgs
SetForDelegator(cfgs, d, v) ==
    LET rest == RemoveForDelegator(cfgs, d)
        k == Cardinality({i \in 1..Len(rest) : rest[i].delegator < d})
    IN InsertAt(rest, k + 1, [delegator |-> d, value |-> v])
remove_auto_compound(st, c, d) ==
    [st EXCEPT !.AutoCompoundingDelegations[c] = RemoveForDelegator(@, d)]

\* Delegator::rm_delegation (with the lock), the request and auto-compound
\* clean-up, and the removal of a delegator left without delegations
RemoveDelegationOfDelegator(st, d, c) ==
    LET old == st.DelegatorState[d]
        amt == BondOf(old.delegations, c).amount
        less == IF HasRequest(st, c, d) THEN RequestOf(st, c, d).amount ELSE 0
        state == [old EXCEPT !.delegations = RemoveOwner(@, c),
                             !.total = SatSub(@, amt),
                             !.less_total = SatSub(@, less)]
        s1 == adjust_bond_lock(st, d, state.total)
        s2 == [s1 EXCEPT !.DelegationScheduledRequests[c] = RemoveRequest(@, d)]
        s3 == remove_auto_compound(s2, c, d)
    IN IF state.delegations = <<>>
       THEN [s3 EXCEPT !.DelegatorState = Remove(@, d)]
       ELSE [s3 EXCEPT !.DelegatorState[d] = state]

\* CandidateMetadata::add_bottom_delegation: a full bottom kicks its lowest entry
add_bottom_delegation(st, bumped_from_top, c, delegation) ==
    IF BottomFull(st, c)
    THEN LET kicked == BottomOf(st, c)[1]
             leaving == Len(st.DelegatorState[kicked.owner].delegations) = 1
             s1 == RemoveDelegationOfDelegator(st, kicked.owner, c)
             s2 == Emit(s1, <<"DelegationKicked", kicked.owner, c, kicked.amount>>)
             s3 == IF leaving THEN Emit(s2, <<"DelegatorLeft", kicked.owner, kicked.amount>>)
                   ELSE s2
         IN reset_bottom_data(s3, c, InsertBottom(Tail(BottomOf(st, c)), delegation))
    ELSE LET s1 == IF bumped_from_top THEN st
                   ELSE [st EXCEPT !.CandidateInfo[c].delegation_count = @ + 1]
         IN reset_bottom_data(s1, c, InsertBottom(BottomOf(st, c), delegation))

\* CandidateMetadata::add_top_delegation: a full top bumps its lowest entry to bottom
add_top_delegation(st, c, delegation) ==
    IF TopFull(st, c)
    THEN LET top == TopOf(st, c)
             bumped == top[Len(top)]
             kicks == BottomFull(st, c)
             s1 == add_bottom_delegation(st, TRUE, c, bumped)
             s2 == reset_top_data(s1, c, InsertTop(SubSeq(top, 1, Len(top) - 1), delegation))
         IN IF kicks THEN s2 ELSE [s2 EXCEPT !.CandidateInfo[c].delegation_count = @ + 1]
    ELSE LET s2 == reset_top_data(st, c, InsertTop(TopOf(st, c), delegation))
         IN [s2 EXCEPT !.CandidateInfo[c].delegation_count = @ + 1]

\* CandidateMetadata::add_delegation: error, position and kicked amount
add_delegationErr(st, c, delegation) ==
    IF TopFull(st, c) /\ ~(lowest_top_delegation_amount(st, c) < delegation.amount)
       /\ BottomFull(st, c) /\ ~(delegation.amount > lowest_bottom_delegation_amount(st, c))
    THEN "CannotDelegateLessThanOrEqualToLowestBottomWhenFull" ELSE "Ok"
add_delegationToTop(st, c, delegation) ==
    ~TopFull(st, c) \/ lowest_top_delegation_amount(st, c) < delegation.amount
add_delegationLess(st, c, delegation) ==
    IF TopFull(st, c) /\ BottomFull(st, c) THEN lowest_bottom_delegation_amount(st, c) ELSE 0
add_delegation(st, c, delegation) ==
    IF add_delegationToTop(st, c, delegation) THEN add_top_delegation(st, c, delegation)
    ELSE add_bottom_delegation(st, FALSE, c, delegation)


(***************************************************************************)
(* Delegator dispatchables.                                                *)
(***************************************************************************)
DelegatesTo(st, d, c) == is_delegator(st, d) /\ c \in Owners(st.DelegatorState[d].delegations)
DelegationAmount(st, d, c) == BondOf(st.DelegatorState[d].delegations, c).amount
InTop(st, c, d) == d \in Owners(TopOf(st, c))
InBottom(st, c, d) == d \in Owners(BottomOf(st, c))

delegate_with_auto_compoundErr(st, candidate, delegator, amount, pct, cd_hint, ac_hint, d_hint) ==
    IF get_delegator_stakable_free_balance(st, delegator) < amount THEN "InsufficientBalance"
    ELSE IF is_delegator(st, delegator) /\ amount < MinDelegation THEN "DelegationBelowMin"
    ELSE IF is_delegator(st, delegator)
            /\ d_hint < Len(st.DelegatorState[delegator].delegations)
        THEN "TooLowDelegationCountToDelegate"
    ELSE IF is_delegator(st, delegator)
            /\ ~(Len(st.DelegatorState[delegator].delegations) < MaxDelegationsPerDelegator)
        THEN "ExceedMaxDelegationsPerDelegator"
    ELSE IF DelegatesTo(st, delegator, candidate) THEN "AlreadyDelegatedCandidate"
    ELSE IF ~is_delegator(st, delegator) /\ amount < MinDelegatorStk THEN "DelegatorBondBelowMin"
    ELSE IF ~is_delegator(st, delegator) /\ is_candidate(st, delegator) THEN "CandidateExists"
    ELSE IF ~is_candidate(st, candidate) THEN "CandidateDNE"
    ELSE IF cd_hint < st.CandidateInfo[candidate].delegation_count
        THEN "TooLowCandidateDelegationCountToDelegate"
    ELSE IF pct # 0 /\ Len(AutoCompoundOf(st, candidate)) > ac_hint
        THEN "TooLowCandidateAutoCompoundingDelegationCountToDelegate"
    ELSE add_delegationErr(st, candidate, Bond(delegator, amount))

\* the delegator's side of a delegation, on the storage s1 that add_delegation left
delegate_with_auto_compoundDelegator(s1, candidate, delegator, amount, pct, less) ==
    LET old == IF is_delegator(s1, delegator) THEN s1.DelegatorState[delegator]
               ELSE [delegations |-> <<>>, total |-> 0, less_total |-> 0]
        k == Cardinality({i \in 1..Len(old.delegations) : old.delegations[i].owner < candidate})
        state == [old EXCEPT !.delegations = InsertAt(@, k + 1, Bond(candidate, amount)),
                             !.total = @ + amount]
        s2 == adjust_bond_lock(s1, delegator, state.total)
        s3 == IF pct # 0
              THEN [s2 EXCEPT !.AutoCompoundingDelegations[candidate] =
                                 SetForDelegator(@, delegator, pct)]
              ELSE s2
    IN [s3 EXCEPT !.Total = @ + SatSub(amount, less),
                  !.DelegatorState = Put(@, delegator, state)]

delegate_with_auto_compoundDo(st, candidate, delegator, amount, pct) ==
    LET delegation == Bond(delegator, amount)
        less == add_delegationLess(st, candidate, delegation)
        to_top == add_delegationToTop(st, candidate, delegation)
    IN CHOOSE r \in
         {Emit(s4, <<"Delegation", delegator, amount, candidate,
                     IF to_top THEN s4.CandidateInfo[candidate].total_counted ELSE 0, pct>>) :
            s4 \in {delegate_with_auto_compoundDelegator(s1, candidate, delegator, amount,
                                                         pct, less) :
                       s1 \in {add_delegation(st, candidate, delegation)}}} : TRUE

\* CandidateMetadata::increase_delegation on the bucket that holds the delegation
\* mutation: the bucket entry keeps its amount
candidate_increase_delegationSkipped(st, c, d, before, more) == st

candidate_increase_delegation(st, c, d, before, more) ==
    IF InTop(st, c, d)
    THEN reset_top_data(st, c, InsertTop(RemoveOwner(TopOf(st, c), d), Bond(d, before + more)))
    ELSE IF before + more > lowest_top_delegation_amount(st, c)
    THEN LET top == TopOf(st, c)
             bottom1 == RemoveOwner(BottomOf(st, c), d)
             bottom2 == IF TopFull(st, c) THEN InsertBottom(bottom1, top[Len(top)]) ELSE bottom1
             top1 == IF TopFull(st, c) THEN SubSeq(top, 1, Len(top) - 1) ELSE top
             s1 == reset_top_data(st, c, InsertTop(top1, Bond(d, before + more)))
         IN reset_bottom_data(s1, c, bottom2)
    ELSE reset_bottom_data(st, c,
            InsertBottom(RemoveOwner(BottomOf(st, c), d), Bond(d, before + more)))

delegation_bond_more_without_eventErr(st, delegator, candidate, more) ==
    IF is_candidate(st, candidate) /\ delegation_request_revoke_exists(st, candidate, delegator)
        THEN "PendingDelegationRevoke"
    ELSE IF ~is_delegator(st, delegator) THEN "DelegatorDNE"
    ELSE IF ~DelegatesTo(st, delegator, candidate) THEN "DelegationDNE"
    ELSE IF get_delegator_stakable_free_balance(st, delegator) < more THEN "InsufficientBalance"
    ELSE IF ~is_candidate(st, candidate) THEN "CandidateDNE"
    ELSE "Ok"

\* Delegator::increase_delegation
delegation_bond_more_without_eventDo(st, delegator, candidate, more) ==
    LET old == st.DelegatorState[delegator]
        before == DelegationAmount(st, delegator, candidate)
        i == IndexOfOwner(old.delegations, candidate)
        state == [old EXCEPT !.delegations[i].amount = @ + more, !.total = @ + more]
        s1 == adjust_bond_lock(st, delegator, state.total)
        s2 == candidate_increase_delegation(s1, candidate, delegator, before, more)
    IN [s2 EXCEPT !.Total = @ + more, !.DelegatorState[delegator] = state]

delegator_bond_moreDo(st, delegator, candidate, more) ==
    LET s1 == delegation_bond_more_without_eventDo(st, delegator, candidate, more)
    IN Emit(s1, <<"DelegationIncreased", delegator, candidate, more,
                  IF InTop(s1, candidate, delegator) THEN 1 ELSE 0>>)

\* mutation: a pending request does not stop a second one
schedule_revoke_delegationErrAnyPending(st, collator, delegator) ==
    IF ~is_delegator(st, delegator) THEN "DelegatorDNE"
    ELSE IF ~DelegatesTo(st, delegator, collator) THEN "DelegationDNE"
    ELSE "Ok"

\* delegation_schedule_revoke
schedule_revoke_delegationErr(st, collator, delegator) ==
    IF ~is_delegator(st, delegator) THEN "DelegatorDNE"
    ELSE IF is_candidate(st, collator) /\ HasRequest(st, collator, delegator)
        THEN "PendingDelegationRequestAlreadyExists"
    ELSE IF ~DelegatesTo(st, delegator, collator) THEN "DelegationDNE"
    ELSE "Ok"

schedule_revoke_delegationDo(st, collator, delegator) ==
    LET amt == DelegationAmount(st, delegator, collator)
        when == st.Round.current + RevokeDelegationDelay
        s1 == [st EXCEPT !.DelegationScheduledRequests[collator] =
                            Append(@, [delegator |-> delegator, action |-> "Revoke",
                                       amount |-> amt, when_executable |-> when]),
                         !.DelegatorState[delegator].less_total = @ + amt]
    IN Emit(s1, <<"DelegationRevocationScheduled", st.Round.current, delegator, collator, when>>)

\* delegation_schedule_bond_decrease
schedule_delegator_bond_lessErr(st, collator, delegator, less) ==
    IF ~is_delegator(st, delegator) THEN "DelegatorDNE"
    ELSE IF is_candidate(st, collator) /\ HasRequest(st, collator, delegator)
        THEN "PendingDelegationRequestAlreadyExists"
    ELSE IF ~DelegatesTo(st, delegator, collator) THEN "DelegationDNE"
    ELSE IF ~(DelegationAmount(st, delegator, collator) > less) THEN "DelegatorBondBelowMin"
    ELSE IF DelegationAmount(st, delegator, collator) - less < MinDelegation
        THEN "DelegationBelowMin"
    ELSE IF less > SatSub(SatSub(st.DelegatorState[delegator].total,
                                 st.DelegatorState[delegator].less_total), MinDelegatorStk)
        THEN "DelegatorBondBelowMin"
    ELSE "Ok"

schedule_delegator_bond_lessDo(st, collator, delegator, less) ==
    LET when == st.Round.current + DelegationBondLessDelay
        s1 == [st EXCEPT !.DelegationScheduledRequests[collator] =
                            Append(@, [delegator |-> delegator, action |-> "Decrease",
                                       amount |-> less, when_executable |-> when]),
                         !.DelegatorState[delegator].less_total = @ + less]
    IN Emit(s1, <<"DelegationDecreaseScheduled", delegator, collator, less, when>>)

\* delegation_cancel_request
cancel_delegation_requestErr(st, collator, delegator) ==
    IF ~is_delegator(st, delegator) THEN "DelegatorDNE"
    ELSE IF ~(is_candidate(st, collator) /\ HasRequest(st, collator, delegator))
        THEN "PendingDelegationRequestDNE"
    ELSE "Ok"

cancel_delegation_requestDo(st, collator, delegator) ==
    LET req == RequestOf(st, collator, delegator)
        s1 == [st EXCEPT !.DelegationScheduledRequests[collator] = RemoveRequest(@, delegator),
                         !.DelegatorState[delegator].less_total = SatSub(@, req.amount)]
    IN Emit(s1, <<"CancelledDelegationRequest", delegator, collator, req.amount>>)


\* CandidateMetadata::rm_delegation_if_exists: removing a top delegation promotes
\* the highest bottom delegation
rm_delegation_if_exists(st, c, d) ==
    LET s0 == [st EXCEPT !.CandidateInfo[c].delegation_count = SatSub(@, 1)]
    IN IF InTop(st, c, d)
       THEN LET top1 == RemoveOwner(TopOf(st, c), d)
                bottom == BottomOf(st, c)
            IN IF bottom # <<>>
               THEN reset_top_data(
                        reset_bottom_data(s0, c, SubSeq(bottom, 1, Len(bottom) - 1)),
                        c, InsertTop(top1, bottom[Len(bottom)]))
               ELSE reset_top_data(s0, c, top1)
       ELSE reset_bottom_data(s0, c, RemoveOwner(BottomOf(st, c), d))

\* mutation: Total keeps the stake of the delegation that left
delegator_leaves_candidateTotalKept(total, amount) == total

delegator_leaves_candidateTotal(total, amount) == SatSub(total, amount)

delegator_leaves_candidate(st, candidate, delegator, amount) ==
    LET s1 == rm_delegation_if_exists(st, candidate, delegator)
        s2 == [s1 EXCEPT !.Total = delegator_leaves_candidateTotal(@, amount)]
    IN Emit(s2, <<"DelegatorLeftCandidate", delegator, candidate, amount,
                  s2.CandidateInfo[candidate].total_counted>>)

\* mutation: a decreased top delegation keeps its place
candidate_decrease_delegationInPlace(st, c, d, before, less) ==
    IF InTop(st, c, d)
    THEN reset_top_data(st, c, InsertTop(RemoveOwner(TopOf(st, c), d), Bond(d, before - less)))
    ELSE reset_bottom_data(st, c,
            InsertBottom(RemoveOwner(BottomOf(st, c), d), Bond(d, before - less)))

\* CandidateMetadata::decrease_delegation on the bucket that holds the delegation
candidate_decrease_delegation(st, c, d, before, less) ==
    IF InTop(st, c, d)
    THEN IF before - less < highest_bottom_delegation_amount(st, c)
            /\ TopFull(st, c) /\ BottomOf(st, c) # <<>>
         THEN LET bottom == BottomOf(st, c)
                  top1 == InsertTop(RemoveOwner(TopOf(st, c), d), bottom[Len(bottom)])
                  bottom1 == InsertBottom(SubSeq(bottom, 1, Len(bottom) - 1),
                                          Bond(d, before - less))
              IN reset_top_data(reset_bottom_data(st, c, bottom1), c, top1)
         ELSE reset_top_data(st, c,
                 InsertTop(RemoveOwner(TopOf(st, c), d), Bond(d, before - less)))
    ELSE reset_bottom_data(st, c,
            InsertBottom(RemoveOwner(BottomOf(st, c), d), Bond(d, before - less)))

\* mutation: the round of the request is not consulted
execute_delegation_requestErrAnyRound(st, delegator, candidate) ==
    IF ~is_delegator(st, delegator) THEN "DelegatorDNE"
    ELSE IF ~HasRequest(st, candidate, delegator) THEN "PendingDelegationRequestDNE"
    ELSE IF ~is_candidate(st, candidate) THEN "CandidateDNE"
    ELSE IF ~DelegatesTo(st, delegator, candidate) THEN "DelegationDNE"
    ELSE "Ok"

\* delegation_execute_scheduled_request
execute_delegation_requestErr(st, delegator, candidate) ==
    IF ~is_delegator(st, delegator) THEN "DelegatorDNE"
    ELSE IF ~HasRequest(st, candidate, delegator) THEN "PendingDelegationRequestDNE"
    ELSE IF RequestOf(st, candidate, delegator).when_executable > st.Round.current
        THEN "PendingDelegationRequestNotDueYet"
    ELSE IF RequestOf(st, candidate, delegator).action = "Revoke"
    THEN IF Len(st.DelegatorState[delegator].delegations) # 1
            /\ SatSub(st.DelegatorState[delegator].total, MinDelegatorStk)
                   < RequestOf(st, candidate, delegator).amount
         THEN "DelegatorBondBelowMin"
         ELSE IF ~is_candidate(st, candidate) THEN "CandidateDNE"
         ELSE IF ~DelegatesTo(st, delegator, candidate) THEN "DelegationDNE"
         ELSE "Ok"
    ELSE IF ~DelegatesTo(st, delegator, candidate) THEN "DelegationDNE"
    ELSE IF ~(DelegationAmount(st, delegator, candidate)
                  > RequestOf(st, candidate, delegator).amount) THEN "DelegationBelowMin"
    ELSE IF ~is_candidate(st, candidate) THEN "CandidateDNE"
    ELSE IF st.DelegatorState[delegator].total - RequestOf(st, candidate, delegator).amount
                < MinDelegation THEN "DelegationBelowMin"
    ELSE IF st.DelegatorState[delegator].total - RequestOf(st, candidate, delegator).amount
                < MinDelegatorStk THEN "DelegatorBondBelowMin"
    ELSE "Ok"

execute_delegation_requestDo(st, delegator, candidate) ==
    LET req == RequestOf(st, candidate, delegator)
        amount == req.amount
        old == st.DelegatorState[delegator]
    IN IF req.action = "Revoke"
       THEN LET leaving == Len(old.delegations) = 1
                s1 == RemoveDelegationOfDelegator(st, delegator, candidate)
                s2 == delegator_leaves_candidate(s1, candidate, delegator, amount)
                s3 == Emit(s2, <<"DelegationRevoked", delegator, candidate, amount>>)
            IN IF leaving
               THEN Emit([s3 EXCEPT !.DelegatorState = Remove(@, delegator)],
                         <<"DelegatorLeft", delegator, amount>>)
               ELSE s3
       ELSE LET before == DelegationAmount(st, delegator, candidate)
                i == IndexOfOwner(old.delegations, candidate)
                state == [old EXCEPT !.delegations[i].amount = @ - amount,
                                     !.total = @ - amount,
                                     !.less_total = SatSub(@, amount)]
                s1 == adjust_bond_lock(st, delegator, state.total)
                s2 == candidate_decrease_delegation(s1, candidate, delegator, before, amount)
                s3 == [s2 EXCEPT !.Total = SatSub(@, amount),
                                 !.DelegationScheduledRequests[candidate] =
                                     RemoveRequest(@, delegator),
                                 !.DelegatorState[delegator] = state]
            IN Emit(s3, <<"DelegationDecreased", delegator, candidate, amount,
                          IF InTop(s3, candidate, delegator) THEN 1 ELSE 0>>)

\* AutoCompoundDelegations::set_auto_compound
set_auto_compoundErr(st, candidate, delegator, value, ac_hint, d_hint) ==
    IF ~is_delegator(st, delegator) THEN "DelegatorDNE"
    ELSE IF Len(st.DelegatorState[delegator].delegations) > d_hint
        THEN "TooLowDelegationCountToAutoCompound"
    ELSE IF ~DelegatesTo(st, delegator, candidate) THEN "DelegationDNE"
    ELSE IF Len(AutoCompoundOf(st, candidate)) > ac_hint
        THEN "TooLowCandidateAutoCompoundingDelegationCountToAutoCompound"
    ELSE "Ok"

set_auto_compoundDo(st, candidate, delegator, value) ==
    LET s1 == IF value = 0 THEN remove_auto_compound(st, candidate, delegator)
              ELSE [st EXCEPT !.AutoCompoundingDelegations[candidate] =
                                 SetForDelegator(@, delegator, value)]
    IN Emit(s1, <<"AutoCompoundSet", candidate, delegator, value>>)

(***************************************************************************)
(* execute_leave_candidates                                                *)
(***************************************************************************)
\* CandidateMetadata::can_leave
can_leaveErr(st, state) ==
    IF IsLeaving(state)
    THEN IF st.Round.current >= state.exit THEN "Ok" ELSE "CandidateCannotLeaveYet"
    ELSE "CandidateNotLeaving"

\* mutation: can_leave is not consulted
execute_leave_candidatesErrAnyRound(st, candidate, candidate_delegation_count) ==
    IF ~is_candidate(st, candidate) THEN "CandidateDNE"
    ELSE IF st.CandidateInfo[candidate].delegation_count > candidate_delegation_count
        THEN "TooLowCandidateDelegationCountToLeaveCandidates"
    ELSE "Ok"

execute_leave_candidatesErr(st, candidate, candidate_delegation_count) ==
    IF ~is_candidate(st, candidate) THEN "CandidateDNE"
    ELSE IF st.CandidateInfo[candidate].delegation_count > candidate_delegation_count
        THEN "TooLowCandidateDelegationCountToLeaveCandidates"
    ELSE IF can_leaveErr(st, st.CandidateInfo[candidate]) # "Ok"
        THEN can_leaveErr(st, st.CandidateInfo[candidate])
    ELSE IF \E d \in Owners(TopOf(st, candidate)) \cup Owners(BottomOf(st, candidate)) :
                ~is_delegator(st, d)
        THEN "Panic"
    ELSE "Ok"

\* the closure return_stake
\* mutation: a delegator left without delegations is kept
return_stakeKeepsEmpty(st, candidate, bond) ==
    LET old == st.DelegatorState[bond.owner]
    IN IF candidate \in Owners(old.delegations)
       THEN LET amt == BondOf(old.delegations, candidate).amount
                delegator == [old EXCEPT !.delegations = RemoveOwner(@, candidate),
                                         !.total = SatSub(@, amt)]
                s1 == adjust_bond_lock(st, bond.owner, delegator.total)
                s2 == [s1 EXCEPT !.DelegationScheduledRequests[candidate] =
                                    RemoveRequest(@, bond.owner)]
                s3 == remove_auto_compound(s2, candidate, bond.owner)
            IN [s3 EXCEPT !.DelegatorState[bond.owner] = delegator]
       ELSE RemoveDelegatorLock(st, bond.owner)

return_stake(st, candidate, bond) ==
    LET old == st.DelegatorState[bond.owner]
    IN IF candidate \in Owners(old.delegations)
       THEN LET amt == BondOf(old.delegations, candidate).amount
                less == IF HasRequest(st, candidate, bond.owner)
                        THEN RequestOf(st, candidate, bond.owner).amount ELSE 0
                delegator == [old EXCEPT !.delegations = RemoveOwner(@, candidate),
                                         !.total = SatSub(@, amt),
                                         !.less_total = SatSub(@, less)]
                s1 == adjust_bond_lock(st, bond.owner, delegator.total)
                s2 == [s1 EXCEPT !.DelegationScheduledRequests[candidate] =
                                    RemoveRequest(@, bond.owner)]
                s3 == remove_auto_compound(s2, candidate, bond.owner)
            IN IF delegator.total = 0
               THEN RemoveDelegatorLock([s3 EXCEPT !.DelegatorState = Remove(@, bond.owner)],
                                        bond.owner)
               ELSE [s3 EXCEPT !.DelegatorState[bond.owner] = delegator]
       ELSE RemoveDelegatorLock(st, bond.owner)

RECURSIVE ReturnAll(_, _, _)
ReturnAll(st, candidate, bonds) ==
    IF bonds = <<>> THEN st
    ELSE ReturnAll(return_stake(st, candidate, Head(bonds)), candidate, Tail(bonds))

execute_leave_candidatesBacking(state, top, bottom) == state.bond + top.total + bottom.total

execute_leave_candidatesDo(st, candidate) ==
    LET state == st.CandidateInfo[candidate]
        top == st.TopDelegations[candidate]
        bottom == st.BottomDelegations[candidate]
        s1 == ReturnAll(st, candidate, top.delegations)
        s2 == ReturnAll(s1, candidate, bottom.delegations)
        total_backing == execute_leave_candidatesBacking(state, top, bottom)
        s3 == RemoveCollatorLock(s2, candidate)
        new_total_staked == SatSub(s3.Total, total_backing)
        s4 == [s3 EXCEPT !.CandidateInfo = Remove(@, candidate),
                         !.DelegationScheduledRequests[candidate] = <<>>,
                         !.AutoCompoundingDelegations[candidate] = <<>>,
                         !.TopDelegations = Remove(@, candidate),
                         !.BottomDelegations = Remove(@, candidate),
                         !.Total = new_total_staked]
    IN Emit(s4, <<"CandidateLeft", candidate, total_backing, new_total_staked>>)


(***************************************************************************)
(* Rounds, points, selection, snapshots and payouts.                       *)
(***************************************************************************)
\* inflation: the per-round issuance range and the staking expectations of
\* the genesis inflation_config
RoundIssuanceMin == 800
RoundIssuanceIdeal == 1000
RoundIssuanceMax == 1200
ExpectMin == 3
ExpectMax == 8

\* Range<T> and Range::is_valid
Range(min, ideal, max) == [min |-> min, ideal |-> ideal, max |-> max]
RangeIsValid(r) == r.max >= r.ideal /\ r.ideal >= r.min

\* blocks per year, in the model's scale
BlocksPerYear == 12
\* crate::inflation::rounds_per_year
rounds_per_year(blocks_per_round) == BlocksPerYear \div blocks_per_round
\* the per-round range: the annual range divided by the rounds per year
annual_to_round(annual, blocks_per_round) ==
    LET rounds == rounds_per_year(blocks_per_round)
    IN Range(annual.min \div rounds, annual.ideal \div rounds, annual.max \div rounds)

\* the genesis inflation_config: its annual range gives the per-round range
\* at GenesisBlocksPerRound
GenesisInflationConfig ==
    LET rounds == rounds_per_year(GenesisBlocksPerRound)
    IN [expect |-> Range(ExpectMin, ExpectMin + 1, ExpectMax),
        annual |-> Range(RoundIssuanceMin * rounds, RoundIssuanceIdeal * rounds,
                         RoundIssuanceMax * rounds),
        round |-> Range(RoundIssuanceMin, RoundIssuanceIdeal, RoundIssuanceMax)]

\* crate::inflation::round_issuance_range: the issuance that the per-round
\* range stands for
round_issuance_range(round) == Range(round.min, round.ideal, round.max)

compute_issuance(st, staked) ==
    LET config == st.InflationConfig
        round_issuance == round_issuance_range(config.round)
    IN IF staked < config.expect.min THEN round_issuance.min
       ELSE IF staked > config.expect.max THEN round_issuance.max
       ELSE round_issuance.ideal

\* mutation: the author's score is overwritten, not added to
award_points_to_block_authorOverwrites(st, author) ==
    LET now == st.Round.current
    IN [st EXCEPT !.AwardedPts = Put(@, <<now, author>>, PointsPerBlock),
                  !.Points = Put(@, now, GetOr(st.Points, now, 0) + PointsPerBlock)]

award_points_to_block_author(st, author) ==
    LET now == st.Round.current
        score_plus_20 == GetOr(st.AwardedPts, <<now, author>>, 0) + PointsPerBlock
    IN [st EXCEPT !.AwardedPts = Put(@, <<now, author>>, score_plus_20),
                  !.Points = Put(@, now, GetOr(st.Points, now, 0) + PointsPerBlock)]

\* RoundInfo::update
RoundUpdate(round, now) == [round EXCEPT !.current = @ + 1, !.first = now]

\* Currency::deposit_into_existing succeeds for a zero value or an existing account
DepositOk(st, a, amt) == amt = 0 \/ AccountExists(st, a)

prepare_staking_payoutsLeft(total_issuance, reserved) == SatSub(total_issuance, reserved)

\* mutation: the reserve is deducted whether or not the deposit succeeds
prepare_staking_payoutsDeductsAlways(st, now) ==
    LET delay == RewardPaymentDelay
        round_to_payout == SatSub(now, delay)
        total_points == GetOr(st.Points, round_to_payout, 0)
        total_staked == GetOr(st.Staked, round_to_payout, 0)
        total_issuance == compute_issuance(st, total_staked)
        bond_config == st.ParachainBondInfo
        parachain_bond_reserve == PercentMul(bond_config.percent, total_issuance)
        ok == DepositOk(st, bond_config.account, parachain_bond_reserve)
        s1 == [st EXCEPT !.Staked = Remove(@, round_to_payout)]
        s2 == IF ok
              THEN Emit(DepositIntoExisting(s1, bond_config.account, parachain_bond_reserve),
                        <<"ReservedForParachainBond", bond_config.account,
                          parachain_bond_reserve>>)
              ELSE s1
        payout == [round_issuance |-> total_issuance,
                   total_staking_reward |-> SatSub(total_issuance, parachain_bond_reserve),
                   collator_commission |-> st.CollatorCommission]
    IN IF now <= delay THEN st
       ELSE IF total_points = 0 THEN st
       ELSE [s2 EXCEPT !.DelayedPayouts = Put(@, round_to_payout, payout)]

prepare_staking_payouts(st, now) ==
    LET delay == RewardPaymentDelay
        round_to_payout == SatSub(now, delay)
        total_points == GetOr(st.Points, round_to_payout, 0)
        total_staked == GetOr(st.Staked, round_to_payout, 0)
        total_issuance == compute_issuance(st, total_staked)
        bond_config == st.ParachainBondInfo
        parachain_bond_reserve == PercentMul(bond_config.percent, total_issuance)
        ok == DepositOk(st, bond_config.account, parachain_bond_reserve)
        s1 == [st EXCEPT !.Staked = Remove(@, round_to_payout)]
        s2 == IF ok
              THEN Emit(DepositIntoExisting(s1, bond_config.account, parachain_bond_reserve),
                        <<"ReservedForParachainBond", bond_config.account,
                          parachain_bond_reserve>>)
              ELSE s1
        left_issuance == IF ok
                         THEN prepare_staking_payoutsLeft(total_issuance, parachain_bond_reserve)
                         ELSE total_issuance
        payout == [round_issuance |-> total_issuance,
                   total_staking_reward |-> left_issuance,
                   collator_commission |-> st.CollatorCommission]
    IN IF now <= delay THEN st
       ELSE IF total_points = 0 THEN st
       ELSE [s2 EXCEPT !.DelayedPayouts = Put(@, round_to_payout, payout)]

\* mint: a Rewarded event when the deposit succeeds (r: the round paid for)
mint(st, r, amt, to) ==
    IF DepositOk(st, to, amt)
    THEN Emit([DepositIntoExisting(st, to, amt) EXCEPT
                   !.rewarded = Put(@, r, GetOr(@, r, 0) + amt)],
              <<"Rewarded", to, amt>>)
    ELSE st

\* mutation: the compounded amount is rounded to the nearest unit
mint_and_compoundNearest(st, r, amt, compound_percent, candidate, delegator) ==
    IF DepositOk(st, delegator, amt)
    THEN LET s1 == mint(st, r, amt, delegator)
             compound_amount == PercentMul(compound_percent, amt)
         IN IF compound_amount = 0 THEN s1
            ELSE IF delegation_bond_more_without_eventErr(s1, delegator, candidate,
                                                          compound_amount) # "Ok"
            THEN s1
            ELSE Emit(delegation_bond_more_without_eventDo(s1, delegator, candidate,
                                                           compound_amount),
                      <<"Compounded", candidate, delegator, compound_amount>>)
    ELSE st

\* mutation: a failed compounding takes the reward back
mint_and_compoundReverting(st, r, amt, compound_percent, candidate, delegator) ==
    IF DepositOk(st, delegator, amt)
    THEN LET s1 == mint(st, r, amt, delegator)
             compound_amount == PercentMulCeil(compound_percent, amt)
         IN IF compound_amount = 0 THEN s1
            ELSE IF delegation_bond_more_without_eventErr(s1, delegator, candidate,
                                                          compound_amount) # "Ok"
            THEN st
            ELSE Emit(delegation_bond_more_without_eventDo(s1, delegator, candidate,
                                                           compound_amount),
                      <<"Compounded", candidate, delegator, compound_amount>>)
    ELSE st

mint_and_compound(st, r, amt, compound_percent, candidate, delegator) ==
    IF DepositOk(st, delegator, amt)
    THEN LET s1 == mint(st, r, amt, delegator)
             compound_amount == PercentMulCeil(compound_percent, amt)
         IN IF compound_amount = 0 THEN s1
            ELSE IF delegation_bond_more_without_eventErr(s1, delegator, candidate,
                                                          compound_amount) # "Ok"
            THEN s1
            ELSE Emit(delegation_bond_more_without_eventDo(s1, delegator, candidate,
                                                           compound_amount),
                      <<"Compounded", candidate, delegator, compound_amount>>)
    ELSE st

DefaultSnapshot == [bond |-> 0, delegations |-> <<>>, total |-> 0]

RECURSIVE PayDelegators(_, _, _, _, _, _)
PayDelegators(st, r, collator, delegations, total, amt_due) ==
    IF delegations = <<>> THEN st
    ELSE LET d == Head(delegations)
             percent == PerbillFromRational(d.amount, total)
             due == PerbillMul(percent, amt_due)
             s1 == IF due # 0
                   THEN mint_and_compound(st, r, due, d.auto_compound, collator, d.owner)
                   ELSE st
         IN PayDelegators(s1, r, collator, Tail(delegations), total, amt_due)

AwardedIn(st, r) == {k \in DOMAIN st.AwardedPts : k[1] = r}
AtStakeIn(st, r) == {k \in DOMAIN st.AtStake : k[1] = r}

\* TRUE when pay_one_collator_reward pays someone (its result.0 is Some)
pay_one_collator_rewardPays(st, paid_for_round) ==
    GetOr(st.Points, paid_for_round, 0) # 0 /\ AwardedIn(st, paid_for_round) # {}

\* mutation: the commission is the one in force when the collator is paid
pay_one_collator_rewardLive(st, paid_for_round, payout_info, collator) ==
    LET total_points == GetOr(st.Points, paid_for_round, 0)
        collator_fee == st.CollatorCommission
        collator_issuance == PerbillMul(collator_fee, payout_info.round_issuance)
        pts == st.AwardedPts[<<paid_for_round, collator>>]
        pct_due == PerbillFromRational(pts, total_points)
        total_paid == PerbillMul(pct_due, payout_info.total_staking_reward)
        state == GetOr(st.AtStake, <<paid_for_round, collator>>, DefaultSnapshot)
        s1 == [st EXCEPT !.AwardedPts = Remove(@, <<paid_for_round, collator>>),
                         !.AtStake = Remove(@, <<paid_for_round, collator>>)]
        collator_pct == PerbillFromRational(state.bond, state.total)
        commission == PerbillMul(pct_due, collator_issuance)
        amt_due == SatSub(total_paid, commission)
        collator_reward == PerbillMul(collator_pct, amt_due) + commission
    IN IF ~pay_one_collator_rewardPays(st, paid_for_round) THEN st
       ELSE IF state.delegations = <<>> THEN mint(s1, paid_for_round, total_paid, collator)
       ELSE PayDelegators(mint(s1, paid_for_round, collator_reward, collator),
                          paid_for_round, collator, state.delegations, state.total, amt_due)

\* pays `collator`, the entry that the drain of AwardedPts[paid_for_round] yields
pay_one_collator_reward(st, paid_for_round, payout_info, collator) ==
    LET total_points == GetOr(st.Points, paid_for_round, 0)
        collator_fee == payout_info.collator_commission
        collator_issuance == PerbillMul(collator_fee, payout_info.round_issuance)
        pts == st.AwardedPts[<<paid_for_round, collator>>]
        pct_due == PerbillFromRational(pts, total_points)
        total_paid == PerbillMul(pct_due, payout_info.total_staking_reward)
        state == GetOr(st.AtStake, <<paid_for_round, collator>>, DefaultSnapshot)
        s1 == [st EXCEPT !.AwardedPts = Remove(@, <<paid_for_round, collator>>),
                         !.AtStake = Remove(@, <<paid_for_round, collator>>)]
        collator_pct == PerbillFromRational(state.bond, state.total)
        commission == PerbillMul(pct_due, collator_issuance)
        amt_due == SatSub(total_paid, commission)
        collator_reward == PerbillMul(collator_pct, amt_due) + commission
    IN IF ~pay_one_collator_rewardPays(st, paid_for_round) THEN st
       ELSE IF state.delegations = <<>> THEN mint(s1, paid_for_round, total_paid, collator)
       ELSE PayDelegators(mint(s1, paid_for_round, collator_reward, collator),
                          paid_for_round, collator, state.delegations, state.total, amt_due)

\* AtStake::clear_prefix(round, limit): removes at most `limit` entries
ClearPrefix(atStake, r, limit) ==
    LET keys == {k \in DOMAIN atStake : k[1] = r}
        gone == IF Cardinality(keys) <= limit THEN keys
                ELSE CHOOSE S \in SUBSET keys : Cardinality(S) = limit
    IN [k \in (DOMAIN atStake) \ gone |-> atStake[k]]

\* mutation: a second collator of the round is paid by the same call
handle_delayed_payoutsPaysTwo(st, now, collator) ==
    LET delay == RewardPaymentDelay
        paid_for_round == SatSub(now, delay)
        s1 == pay_one_collator_reward(st, paid_for_round, st.DelayedPayouts[paid_for_round],
                                      collator)
    IN IF now < delay \/ ~Has(st.DelayedPayouts, paid_for_round) THEN st
       ELSE IF ~pay_one_collator_rewardPays(st, paid_for_round) THEN st
       ELSE IF AwardedIn(s1, paid_for_round) = {} THEN s1
       ELSE pay_one_collator_reward(s1, paid_for_round, st.DelayedPayouts[paid_for_round],
                                    (CHOOSE k \in AwardedIn(s1, paid_for_round) : TRUE)[2])

\* mutation: the round is purged by the call that pays its first collator
handle_delayed_payoutsPurgesEarly(st, now, collator) ==
    LET delay == RewardPaymentDelay
        paid_for_round == SatSub(now, delay)
    IN IF now < delay \/ ~Has(st.DelayedPayouts, paid_for_round) THEN st
       ELSE [pay_one_collator_reward(st, paid_for_round, st.DelayedPayouts[paid_for_round],
                                     collator)
                EXCEPT !.DelayedPayouts = Remove(@, paid_for_round),
                       !.Points = Remove(@, paid_for_round)]

handle_delayed_payouts(st, now, collator) ==
    LET delay == RewardPaymentDelay
        paid_for_round == SatSub(now, delay)
    IN IF now < delay THEN st
       ELSE IF Has(st.DelayedPayouts, paid_for_round)
       THEN IF pay_one_collator_rewardPays(st, paid_for_round)
            THEN pay_one_collator_reward(st, paid_for_round,
                                         st.DelayedPayouts[paid_for_round], collator)
            ELSE [st EXCEPT !.DelayedPayouts = Remove(@, paid_for_round),
                            !.Points = Remove(@, paid_for_round),
                            !.AtStake = ClearPrefix(@, paid_for_round, ClearPrefixLimit)]
       ELSE st


\* mutation: the pool is not reversed, the lowest stakes are taken
compute_top_candidatesTakenAscending(pool, top_n) == Take(StableSortByAmount(pool), top_n)

\* the pool entries that compute_top_candidates keeps, in order of selection
compute_top_candidatesTaken(pool, top_n) == Take(Reverse(StableSortByAmount(pool)), top_n)

compute_top_candidatesQualifies(x) == x.amount >= MinCollatorStk

compute_top_candidates(st) ==
    LET taken == compute_top_candidatesTaken(st.CandidatePool, st.TotalSelected)
    IN SortedSeqOfSet({taken[i].owner : i \in {j \in 1..Len(taken) :
                                                  compute_top_candidatesQualifies(taken[j])}})

RECURSIVE RewardableFrom(_, _, _)
RewardableFrom(st, collator, bonds) ==
    IF bonds = <<>> THEN <<>>
    ELSE LET bond == Head(bonds)
             amount == IF ~HasRequest(st, collator, bond.owner) THEN bond.amount
                       ELSE IF RequestOf(st, collator, bond.owner).action = "Revoke" THEN 0
                       ELSE SatSub(bond.amount, RequestOf(st, collator, bond.owner).amount)
         IN <<Bond(bond.owner, amount)>> \o RewardableFrom(st, collator, Tail(bonds))

RECURSIVE UncountedFrom(_, _, _)
UncountedFrom(st, collator, bonds) ==
    IF bonds = <<>> THEN 0
    ELSE LET bond == Head(bonds)
             u == IF ~HasRequest(st, collator, bond.owner) THEN 0
                  ELSE IF RequestOf(st, collator, bond.owner).action = "Revoke" THEN bond.amount
                  ELSE RequestOf(st, collator, bond.owner).amount
         IN u + UncountedFrom(st, collator, Tail(bonds))

\* mutation: pending requests are ignored
get_rewardable_delegatorsUnadjusted(st, collator) ==
    [uncounted_stake |-> 0, rewardable_delegations |-> TopOf(st, collator)]

get_rewardable_delegators(st, collator) ==
    [uncounted_stake |-> UncountedFrom(st, collator, TopOf(st, collator)),
     rewardable_delegations |-> RewardableFrom(st, collator, TopOf(st, collator))]

\* the snapshot that select_top_candidates stores for a selected account
SnapshotOf(st, account) ==
    LET state == st.CandidateInfo[account]
        counted == get_rewardable_delegators(st, account)
        rd == counted.rewardable_delegations
    IN [bond |-> state.bond,
        delegations |-> [i \in 1..Len(rd) |->
                            [owner |-> rd[i].owner, amount |-> rd[i].amount,
                             auto_compound |-> auto_compound(st, account, rd[i].owner)]],
        total |-> SatSub(state.total_counted, counted.uncounted_stake)]

RECURSIVE SnapshotAllRefreshesLast(_, _, _)
\* mutation: a snapshot that the account has for the last round is refreshed too
SnapshotAllRefreshesLast(st, now, collators) ==
    IF collators = <<>> THEN st
    ELSE LET account == Head(collators)
             last == <<SatSub(now, 1), account>>
             s0 == IF Has(st.AtStake, last)
                   THEN [st EXCEPT !.AtStake = Put(@, last, SnapshotOf(st, account))] ELSE st
             s1 == [s0 EXCEPT !.AtStake = Put(@, <<now, account>>, SnapshotOf(st, account))]
             s2 == Emit(s1, <<"CollatorChosen", now, account,
                              st.CandidateInfo[account].total_counted>>)
         IN SnapshotAllRefreshesLast(s2, now, Tail(collators))

RECURSIVE SnapshotAll(_, _, _)
SnapshotAll(st, now, collators) ==
    IF collators = <<>> THEN st
    ELSE LET account == Head(collators)
             s1 == [st EXCEPT !.AtStake = Put(@, <<now, account>>, SnapshotOf(st, account))]
             s2 == Emit(s1, <<"CollatorChosen", now, account,
                              st.CandidateInfo[account].total_counted>>)
         IN SnapshotAll(s2, now, Tail(collators))

RECURSIVE ChosenFallback(_, _, _)
\* fallback: one CollatorChosen per kept candidate; the lookup of a missing
\* snapshot is the failing `expect`
ChosenFallback(st, now, selected) ==
    IF selected = <<>> THEN st
    ELSE LET candidate == Head(selected)
             s1 == IF Has(st.AtStake, <<now, candidate>>)
                   THEN Emit(st, <<"CollatorChosen", now, candidate,
                                   st.AtStake[<<now, candidate>>].total>>)
                   ELSE Emit(st, <<"Panic", now, candidate>>)
         IN ChosenFallback(s1, now, Tail(selected))

\* mutation: the fallback copies no snapshot
select_top_candidatesNoCopy(atStake, last_round, now) == atStake

\* fallback copy: this round's AtStake is last round's AtStake
select_top_candidatesCopy(atStake, last_round, now) ==
    [k \in (DOMAIN atStake) \cup {<<now, key[2]>> : key \in {x \in DOMAIN atStake : x[1] = last_round}}
        |-> IF k[1] = now /\ <<last_round, k[2]>> \in DOMAIN atStake
            THEN atStake[<<last_round, k[2]>>] ELSE atStake[k]]

\* what select_top_candidates hands back as the collator set
select_top_candidatesReturn(st) == compute_top_candidates(st)

select_top_candidates(st, now) ==
    LET collators == compute_top_candidates(st)
        last_round == SatSub(now, 1)
    IN IF collators = <<>>
       THEN ChosenFallback(
                [st EXCEPT !.AtStake = select_top_candidatesCopy(@, last_round, now)],
                now, st.SelectedCandidates)
       ELSE [SnapshotAll(st, now, collators) EXCEPT !.SelectedCandidates = collators]

\* collator_count and total staked that select_top_candidates returns
select_top_candidatesCount(st, now) ==
    LET collators == compute_top_candidates(st)
    IN IF collators = <<>> THEN Cardinality({k \in DOMAIN st.AtStake : k[1] = SatSub(now, 1)})
       ELSE Len(collators)
select_top_candidatesTotal(st, now) ==
    LET collators == compute_top_candidates(st)
    IN IF collators = <<>>
       THEN SumOver({k \in DOMAIN st.AtStake : k[1] = SatSub(now, 1)},
                    [k \in DOMAIN st.AtStake |-> st.AtStake[k].total])
       ELSE SumOver(SeqSet(collators),
                    [a \in DOMAIN st.CandidateInfo |-> st.CandidateInfo[a].total_counted])

\* mutation: the payout is dripped before the selection and the snapshots
new_sessionPaysFirst(st, b, collator) ==
    LET round == RoundUpdate(st.Round, b)
        s1 == prepare_staking_payouts(st, round.current)
        s2 == handle_delayed_payouts(s1, round.current, collator)
        s3 == select_top_candidates(s2, round.current)
        s4 == [s3 EXCEPT !.Round = round,
                         !.Staked = Put(@, round.current, s3.Total)]
    IN Emit(s4, <<"NewRound", round.first, round.current,
                  select_top_candidatesCount(s2, round.current),
                  select_top_candidatesTotal(s2, round.current)>>)

\* new_session up to its call of handle_delayed_payouts: the payout of the
\* maturing round is prepared, the collators are selected and the round and
\* its Staked entry are written
new_sessionSelected(st, b) ==
    LET round == RoundUpdate(st.Round, b)
        s1 == prepare_staking_payouts(st, round.current)
        s2 == select_top_candidates(s1, round.current)
    IN [s2 EXCEPT !.Round = round,
                  !.Staked = Put(@, round.current, s2.Total)]

\* SessionManager::new_session at block b; `collator` is the AwardedPts entry
\* that the drain yields first, when there is one
new_session(st, b, collator) ==
    LET round == RoundUpdate(st.Round, b)
        s1 == prepare_staking_payouts(st, round.current)
        s3 == new_sessionSelected(st, b)
        s4 == handle_delayed_payouts(s3, round.current, collator)
    IN Emit(s4, <<"NewRound", round.first, round.current,
                  select_top_candidatesCount(s1, round.current),
                  select_top_candidatesTotal(s1, round.current)>>)


\* what new_session returns to the session pallet
new_sessionReturn(st, b) ==
    Some(select_top_candidatesReturn(prepare_staking_payouts(st, RoundUpdate(st.Round, b).current)))

\* relay chain slots that a prediction is asked for
MaxSlot == 5
\* the nimbus keys: account a owns key a, key 0 has no owner
NimbusIds == {ZeroAccount} \cup Accounts

\* AccountLookup::lookup_account: the owner of a nimbus key in the session
\* pallet, if it has one
lookup_account(author) == IF author \in Accounts THEN Some(author) ELSE None

\* NimbusApi::can_author for a block that ends the session, on the storage of
\* its parent: "true" or "false", or "Panic" where the runtime call traps on
\* the remainder by the length of an empty vector
can_author(st, author, relay_parent) ==
    LET slot == relay_parent
        account == lookup_account(author)
        truncated_half_slot == slot \div 2
        active == compute_top_candidates(st)
    IN IF account = None THEN "false"
       ELSE IF Len(active) = 0 THEN "Panic"
       ELSE IF account[1] = active[(truncated_half_slot % Len(active)) + 1] THEN "true"
       ELSE "false"

(***************************************************************************)
(* Governance setters.                                                     *)
(***************************************************************************)
set_parachain_bond_accountErr(st, new) ==
    IF st.ParachainBondInfo.account = new THEN "NoWritingSameValue" ELSE "Ok"
set_parachain_bond_accountDo(st, new) ==
    Emit([st EXCEPT !.ParachainBondInfo.account = new],
         <<"ParachainBondAccountSet", st.ParachainBondInfo.account, new>>)

set_parachain_bond_reserve_percentErr(st, new) ==
    IF st.ParachainBondInfo.percent = new THEN "NoWritingSameValue" ELSE "Ok"
set_parachain_bond_reserve_percentDo(st, new) ==
    Emit([st EXCEPT !.ParachainBondInfo.percent = new],
         <<"ParachainBondReservePercentSet", st.ParachainBondInfo.percent, new>>)

set_total_selectedErr(st, new) ==
    IF new < MinSelectedCandidates THEN "CannotSetBelowMin"
    ELSE IF st.TotalSelected = new THEN "NoWritingSameValue"
    ELSE IF new > st.Round.length THEN "RoundLengthMustBeAtLeastTotalSelectedCollators"
    ELSE "Ok"
set_total_selectedDo(st, new) ==
    Emit([st EXCEPT !.TotalSelected = new], <<"TotalSelectedSet", st.TotalSelected, new>>)

set_collator_commissionErr(st, new) ==
    IF st.CollatorCommission = new THEN "NoWritingSameValue" ELSE "Ok"
set_collator_commissionDo(st, new) ==
    Emit([st EXCEPT !.CollatorCommission = new],
         <<"CollatorCommissionSet", st.CollatorCommission, new>>)

\* mutation: a round length below TotalSelected is accepted
set_blocks_per_roundErrAnyLength(st, new) ==
    IF new < MinBlocksPerRound THEN "CannotSetBelowMin"
    ELSE IF st.Round.length = new THEN "NoWritingSameValue"
    ELSE "Ok"

set_blocks_per_roundErr(st, new) ==
    IF new < MinBlocksPerRound THEN "CannotSetBelowMin"
    ELSE IF st.Round.length = new THEN "NoWritingSameValue"
    ELSE IF new < st.TotalSelected THEN "RoundLengthMustBeAtLeastTotalSelectedCollators"
    ELSE "Ok"
\* mutation: the per-round range is not rederived
reset_roundKept(config, new) == config

\* InflationInfo::reset_round
reset_round(config, new) == [config EXCEPT !.round = annual_to_round(config.annual, new)]
set_blocks_per_roundDo(st, new) ==
    LET round == st.Round
        inflation_config == reset_round(st.InflationConfig, new)
    IN Emit([st EXCEPT !.Round.length = new, !.InflationConfig = inflation_config],
            <<"BlocksPerRoundSet", round.current, round.first, round.length, new,
              inflation_config.round.min, inflation_config.round.ideal,
              inflation_config.round.max>>)

set_staking_expectationsErr(st, expectations) ==
    IF ~RangeIsValid(expectations) THEN "InvalidSchedule"
    ELSE IF st.InflationConfig.expect = expectations THEN "NoWritingSameValue"
    ELSE "Ok"
set_staking_expectationsDo(st, expectations) ==
    Emit([st EXCEPT !.InflationConfig.expect = expectations],
         <<"StakeExpectationsSet", expectations.min, expectations.ideal, expectations.max>>)

set_inflationErr(st, schedule) ==
    IF ~RangeIsValid(schedule) THEN "InvalidSchedule"
    ELSE IF st.InflationConfig.annual = schedule THEN "NoWritingSameValue"
    ELSE "Ok"
\* InflationInfo::set_round_from_annual at the current round length
set_inflationDo(st, schedule) ==
    LET round == annual_to_round(schedule, st.Round.length)
    IN Emit([st EXCEPT !.InflationConfig.annual = schedule, !.InflationConfig.round = round],
            <<"InflationSet", schedule.min, schedule.ideal, schedule.max,
              round.min, round.ideal, round.max>>)

\* every account has a registered validator key
set_invulnerablesErr(st, new) ==
    IF Len(new) > MaxInvulnerables THEN "TooManyInvulnerables" ELSE "Ok"
set_invulnerablesDo(st, new) ==
    Emit([st EXCEPT !.InvulnerableCandidates = new], <<"NewInvulnerables", new>>)

(***************************************************************************)
(* Genesis (GenesisBuild::build with the chain specification's            *)
(* parachain_staking config: candidates, no delegations).                  *)
(***************************************************************************)
\* stake of each genesis candidate
GenesisBond == 3
GenesisCandidates == <<Bond(1, GenesisBond), Bond(2, GenesisBond)>>
\* COLLATOR_COMMISSION (Perbill) and PARACHAIN_BOND_RESERVE_PERCENT (Percent)
GenesisCollatorCommission == 200000000
GenesisParachainBondReservePercent == 30

EmptyStorage ==
    [ Round |-> [current |-> 0, first |-> 0, length |-> 0],
      CandidateInfo |-> EmptyMap, DelegatorState |-> EmptyMap,
      DelegationScheduledRequests |-> [a \in Accounts |-> <<>>],
      AutoCompoundingDelegations |-> [a \in Accounts |-> <<>>],
      TopDelegations |-> EmptyMap, BottomDelegations |-> EmptyMap,
      CandidatePool |-> <<>>, SelectedCandidates |-> <<>>,
      Total |-> 0, AtStake |-> EmptyMap, DelayedPayouts |-> EmptyMap,
      Staked |-> EmptyMap, Points |-> EmptyMap, AwardedPts |-> EmptyMap,
      TotalSelected |-> 0, CollatorCommission |-> 0,
      ParachainBondInfo |-> [account |-> ZeroAccount, percent |-> 0],
      InflationConfig |-> [expect |-> Range(0, 0, 0), annual |-> Range(0, 0, 0),
                           round |-> Range(0, 0, 0)],
      InvulnerableCandidates |-> <<>>,
      max_top_delegations_per_candidate |-> MaxTopDelegationsPerCandidate,
      free_balance |-> [a \in Accounts \cup {ZeroAccount} |->
                           IF a = ZeroAccount THEN 0 ELSE InitialBalance],
      collator_lock |-> [a \in Accounts |-> 0],
      delegator_lock |-> [a \in Accounts |-> 0],
      events |-> <<>>, rewarded |-> EmptyMap ]

RECURSIVE GenesisJoin(_, _, _)
GenesisJoin(st, candidates, candidate_count) ==
    IF candidates = <<>> THEN st
    ELSE LET c == Head(candidates)
             count == candidate_count + 1
         IN IF join_candidatesErr(st, c.owner, c.amount, count) = "Ok"
            THEN GenesisJoin(join_candidatesDo(st, c.owner, c.amount), Tail(candidates),
                             count + 1)
            ELSE GenesisJoin(st, Tail(candidates), count)

\* build with a config whose candidates and blocks_per_round (asserted to be
\* > 0) are given
GenesisBuildWith(candidates, blocks_per_round) ==
    LET s0 == [EmptyStorage EXCEPT !.InflationConfig = GenesisInflationConfig]
        s1 == GenesisJoin(s0, candidates, 0)
        s2 == [s1 EXCEPT !.CollatorCommission = GenesisCollatorCommission,
                         !.ParachainBondInfo = [account |-> ZeroAccount,
                                                percent |-> GenesisParachainBondReservePercent],
                         !.TotalSelected = MinSelectedCandidates]
        s3 == select_top_candidates(s2, 1)
        s4 == [s3 EXCEPT !.Round = [current |-> 1, first |-> 0,
                                    length |-> blocks_per_round],
                         !.Staked = Put(@, 1, s3.Total)]
    IN Emit(s4, <<"NewRound", 0, 1, select_top_candidatesCount(s2, 1),
                  select_top_candidatesTotal(s2, 1)>>)

\* build with the genesis candidates
GenesisBuildOf(blocks_per_round) == GenesisBuildWith(GenesisCandidates, blocks_per_round)

InitStorage(g) ==
    /\ Round = g.Round
    /\ CandidateInfo = g.CandidateInfo
    /\ DelegatorState = g.DelegatorState
    /\ DelegationScheduledRequests = g.DelegationScheduledRequests
    /\ AutoCompoundingDelegations = g.AutoCompoundingDelegations
    /\ TopDelegations = g.TopDelegations
    /\ BottomDelegations = g.BottomDelegations
    /\ CandidatePool = g.CandidatePool
    /\ SelectedCandidates = g.SelectedCandidates
    /\ Total = g.Total
    /\ AtStake = g.AtStake
    /\ DelayedPayouts = g.DelayedPayouts
    /\ Staked = g.Staked
    /\ Points = g.Points
    /\ AwardedPts = g.AwardedPts
    /\ TotalSelected = g.TotalSelected
    /\ CollatorCommission = g.CollatorCommission
    /\ ParachainBondInfo = g.ParachainBondInfo
    /\ InflationConfig = g.InflationConfig
    /\ InvulnerableCandidates = g.InvulnerableCandidates
    /\ max_top_delegations_per_candidate = g.max_top_delegations_per_candidate
    /\ free_balance = g.free_balance
    /\ collator_lock = g.collator_lock
    /\ delegator_lock = g.delegator_lock
    /\ events = g.events
    /\ rewarded = g.rewarded

GenesisBuild == GenesisBuildOf(GenesisBlocksPerRound)

\* the state that the genesis storage g starts the chain with
InitOf(g) ==
    /\ \E genesis \in {g} : InitStorage(genesis)
    /\ block_number = 0
    /\ lastOp = Op("genesis", 0, 0, 0, 0, "Ok", None)

Init == InitOf(GenesisBuild)


(***************************************************************************)
(* Actions.  A dispatchable that returns an error leaves the storage as    *)
(* it was (the call is transactional); lastOp records the call, its        *)
(* arguments and its result.                                               *)
(***************************************************************************)
\* commit `post` when the call succeeded, nothing otherwise
Dispatch(err, post) == \E st \in {IF err = "Ok" THEN post ELSE Storage} : Commit(st)

\* Hooks::on_finalize of a block authored by `author`
NextBlock(author) ==
    /\ block_number < MaxBlock
    /\ block_number' = block_number + 1
    /\ \E st \in {award_points_to_block_author(Storage, author)} : Commit(st)
    /\ lastOp' = Op("on_finalize", author, 0, 0, 0, "Ok", None)

\* the order in which storage iterates the keys of a map hashed with
\* Twox64Concat: by the hash of the key, not by the key itself (here: even
\* accounts come before odd ones)
Twox64Rank(a) == (a % 2) * (NumAccounts + 1) + a

\* AwardedPts::iter_prefix(r).drain().next(): the first entry in storage order
DrainFirst(st, r) ==
    IF AwardedIn(st, r) = {} THEN ZeroAccount
    ELSE (CHOOSE k \in AwardedIn(st, r) :
             \A j \in AwardedIn(st, r) : Twox64Rank(k[2]) <= Twox64Rank(j[2]))[2]

\* mutation: the drain yields any entry of the round
NewSessionDrainAnyOrder(st, r) ==
    IF AwardedIn(st, r) = {} THEN {ZeroAccount} ELSE {k[2] : k \in AwardedIn(st, r)}

\* what the drain of new_session yields on the storage st for round r
NewSessionDrainInOrder(st, r) == {DrainFirst(st, r)}

\* the AwardedPts entries of which the drain of this session may yield the first
NewSessionDrain ==
    LET r == SatSub(Round.current + 1, RewardPaymentDelay)
    IN IF AwardedIn(Storage, r) = {} THEN {ZeroAccount}
       ELSE {k[2] : k \in AwardedIn(Storage, r)}

\* SessionManager::new_session, called by the session pallet when it rotates
\* the session, at most once in a block
NewSession(collator) ==
    /\ Round.current < MaxRound
    /\ block_number > Round.first
    /\ \E st \in {new_session(Storage, block_number, collator)} : Commit(st)
    /\ lastOp' = Op("new_session", 0, 0, block_number, 0, "Ok",
                    new_sessionReturn(Storage, block_number))
    /\ UNCHANGED block_number

\* new_session with the drain in storage order
NewSessionInOrder ==
    \E collator \in NewSessionDrainInOrder(Storage, SatSub(Round.current + 1,
                                                           RewardPaymentDelay)) :
        NewSession(collator)

JoinCandidates(acc, bond, candidate_count) ==
    LET err == join_candidatesErr(Storage, acc, bond, candidate_count)
    IN /\ Dispatch(err, join_candidatesDo(Storage, acc, bond))
       /\ lastOp' = Op("join_candidates", acc, 0, bond, candidate_count, err, None)
       /\ UNCHANGED block_number

ScheduleLeaveCandidates(collator, candidate_count) ==
    LET err == schedule_leave_candidatesErr(Storage, collator, candidate_count)
    IN /\ Dispatch(err, schedule_leave_candidatesDo(Storage, collator))
       /\ lastOp' = Op("schedule_leave_candidates", collator, 0, 0, candidate_count, err, None)
       /\ UNCHANGED block_number

\* any signed origin may execute the exit of `candidate`
ExecuteLeaveCandidates(candidate, candidate_delegation_count) ==
    LET err == execute_leave_candidatesErr(Storage, candidate, candidate_delegation_count)
    IN /\ Dispatch(err, execute_leave_candidatesDo(Storage, candidate))
       /\ lastOp' = Op("execute_leave_candidates", 0, candidate, 0,
                       candidate_delegation_count, err, None)
       /\ UNCHANGED block_number

CancelLeaveCandidates(collator, candidate_count) ==
    LET err == cancel_leave_candidatesErr(Storage, collator, candidate_count)
    IN /\ Dispatch(err, cancel_leave_candidatesDo(Storage, collator))
       /\ lastOp' = Op("cancel_leave_candidates", collator, 0, 0, candidate_count, err, None)
       /\ UNCHANGED block_number

GoOffline(collator) ==
    LET err == go_offlineErr(Storage, collator)
    IN /\ Dispatch(err, go_offlineDo(Storage, collator))
       /\ lastOp' = Op("go_offline", collator, 0, 0, 0, err, None)
       /\ UNCHANGED block_number

GoOnline(collator) ==
    LET err == go_onlineErr(Storage, collator)
    IN /\ Dispatch(err, go_onlineDo(Storage, collator))
       /\ lastOp' = Op("go_online", collator, 0, 0, 0, err, None)
       /\ UNCHANGED block_number

CandidateBondMore(collator, more) ==
    LET err == candidate_bond_moreErr(Storage, collator, more)
    IN /\ Dispatch(err, candidate_bond_moreDo(Storage, collator, more))
       /\ lastOp' = Op("candidate_bond_more", collator, 0, more, 0, err, None)
       /\ UNCHANGED block_number

ScheduleCandidateBondLess(collator, less) ==
    LET err == schedule_candidate_bond_lessErr(Storage, collator, less)
    IN /\ Dispatch(err, schedule_candidate_bond_lessDo(Storage, collator, less))
       /\ lastOp' = Op("schedule_candidate_bond_less", collator, 0, less, 0, err, None)
       /\ UNCHANGED block_number

ExecuteCandidateBondLess(candidate) ==
    LET err == execute_candidate_bond_lessErr(Storage, candidate)
    IN /\ Dispatch(err, execute_candidate_bond_lessDo(Storage, candidate))
       /\ lastOp' = Op("execute_candidate_bond_less", 0, candidate, 0, 0, err, None)
       /\ UNCHANGED block_number

CancelCandidateBondLess(collator) ==
    LET err == cancel_candidate_bond_lessErr(Storage, collator)
    IN /\ Dispatch(err, cancel_candidate_bond_lessDo(Storage, collator))
       /\ lastOp' = Op("cancel_candidate_bond_less", collator, 0, 0, 0, err, None)
       /\ UNCHANGED block_number


DelegateWithAutoCompound(delegator, candidate, amount, pct, cd_hint, ac_hint, d_hint) ==
    LET err == delegate_with_auto_compoundErr(Storage, candidate, delegator, amount, pct,
                                              cd_hint, ac_hint, d_hint)
    IN /\ Dispatch(err, delegate_with_auto_compoundDo(Storage, candidate, delegator, amount, pct))
       /\ lastOp' = Op("delegate_with_auto_compound", delegator, candidate, amount,
                       <<cd_hint, ac_hint, d_hint, pct>>, err, None)
       /\ UNCHANGED block_number

\* delegate: delegate_with_auto_compound with Percent::zero() and no auto-compound hint
Delegate(delegator, candidate, amount, cd_hint, d_hint) ==
    LET err == delegate_with_auto_compoundErr(Storage, candidate, delegator, amount, 0,
                                              cd_hint, 0, d_hint)
    IN /\ Dispatch(err, delegate_with_auto_compoundDo(Storage, candidate, delegator, amount, 0))
       /\ lastOp' = Op("delegate", delegator, candidate, amount, <<cd_hint, d_hint>>, err, None)
       /\ UNCHANGED block_number

DelegatorBondMore(delegator, candidate, more) ==
    LET err == delegation_bond_more_without_eventErr(Storage, delegator, candidate, more)
    IN /\ Dispatch(err, delegator_bond_moreDo(Storage, delegator, candidate, more))
       /\ lastOp' = Op("delegator_bond_more", delegator, candidate, more, 0, err, None)
       /\ UNCHANGED block_number

ScheduleRevokeDelegation(delegator, collator) ==
    LET err == schedule_revoke_delegationErr(Storage, collator, delegator)
    IN /\ Dispatch(err, schedule_revoke_delegationDo(Storage, collator, delegator))
       /\ lastOp' = Op("schedule_revoke_delegation", delegator, collator, 0, 0, err, None)
       /\ UNCHANGED block_number

ScheduleDelegatorBondLess(delegator, candidate, less) ==
    LET err == schedule_delegator_bond_lessErr(Storage, candidate, delegator, less)
    IN /\ Dispatch(err, schedule_delegator_bond_lessDo(Storage, candidate, delegator, less))
       /\ lastOp' = Op("schedule_delegator_bond_less", delegator, candidate, less, 0, err, None)
       /\ UNCHANGED block_number

\* any signed origin may execute the request of `delegator` towards `candidate`
ExecuteDelegationRequest(delegator, candidate) ==
    LET err == execute_delegation_requestErr(Storage, delegator, candidate)
    IN /\ Dispatch(err, execute_delegation_requestDo(Storage, delegator, candidate))
       /\ lastOp' = Op("execute_delegation_request", delegator, candidate, 0, 0, err, None)
       /\ UNCHANGED block_number

CancelDelegationRequest(delegator, candidate) ==
    LET err == cancel_delegation_requestErr(Storage, candidate, delegator)
    IN /\ Dispatch(err, cancel_delegation_requestDo(Storage, candidate, delegator))
       /\ lastOp' = Op("cancel_delegation_request", delegator, candidate, 0, 0, err, None)
       /\ UNCHANGED block_number

SetAutoCompound(delegator, candidate, value, ac_hint, d_hint) ==
    LET err == set_auto_compoundErr(Storage, candidate, delegator, value, ac_hint, d_hint)
    IN /\ Dispatch(err, set_auto_compoundDo(Storage, candidate, delegator, value))
       /\ lastOp' = Op("set_auto_compound", delegator, candidate, value,
                       <<ac_hint, d_hint>>, err, None)
       /\ UNCHANGED block_number

SetParachainBondAccount(new) ==
    LET err == set_parachain_bond_accountErr(Storage, new)
    IN /\ Dispatch(err, set_parachain_bond_accountDo(Storage, new))
       /\ lastOp' = Op("set_parachain_bond_account", 0, new, 0, 0, err, None)
       /\ UNCHANGED block_number

SetParachainBondReservePercent(new) ==
    LET err == set_parachain_bond_reserve_percentErr(Storage, new)
    IN /\ Dispatch(err, set_parachain_bond_reserve_percentDo(Storage, new))
       /\ lastOp' = Op("set_parachain_bond_reserve_percent", 0, 0, new, 0, err, None)
       /\ UNCHANGED block_number

SetTotalSelected(new) ==
    LET err == set_total_selectedErr(Storage, new)
    IN /\ Dispatch(err, set_total_selectedDo(Storage, new))
       /\ lastOp' = Op("set_total_selected", 0, 0, new, 0, err, None)
       /\ UNCHANGED block_number

SetCollatorCommission(new) ==
    LET err == set_collator_commissionErr(Storage, new)
    IN /\ Dispatch(err, set_collator_commissionDo(Storage, new))
       /\ lastOp' = Op("set_collator_commission", 0, 0, new, 0, err, None)
       /\ UNCHANGED block_number

SetBlocksPerRound(new) ==
    LET err == set_blocks_per_roundErr(Storage, new)
    IN /\ Dispatch(err, set_blocks_per_roundDo(Storage, new))
       /\ lastOp' = Op("set_blocks_per_round", 0, 0, new, Round.length, err, None)
       /\ UNCHANGED block_number

SetStakingExpectations(expectations) ==
    LET err == set_staking_expectationsErr(Storage, expectations)
    IN /\ Dispatch(err, set_staking_expectationsDo(Storage, expectations))
       /\ lastOp' = Op("set_staking_expectations", 0, 0, expectations, 0, err, None)
       /\ UNCHANGED block_number

SetInflation(schedule) ==
    LET err == set_inflationErr(Storage, schedule)
    IN /\ Dispatch(err, set_inflationDo(Storage, schedule))
       /\ lastOp' = Op("set_inflation", 0, 0, schedule, 0, err, None)
       /\ UNCHANGED block_number

SetInvulnerables(new) ==
    LET err == set_invulnerablesErr(Storage, new)
    IN /\ Dispatch(err, set_invulnerablesDo(Storage, new))
       /\ lastOp' = Op("set_invulnerables", 0, 0, new, 0, err, None)
       /\ UNCHANGED block_number


(***************************************************************************)
(* Specifications.  Each one composes the calls that the properties        *)
(* checked under it are about; the session pallet may call new_session at  *)
(* any block.                                                              *)
(***************************************************************************)
\* the call of this step succeeded
Succeeded == lastOp'.err = "Ok"

\* a count hint that is always sufficient
EnoughHint == NumAccounts

Authors == SeqSet(SelectedCandidates)

\* a commission that governance sets: 80%
HighCommission == (PerbillMax \div 10) * 8

\* Rewards: blocks, sessions, one auto-compounding delegator, the commission
\* and the parachain bond account
NextPayout ==
    \/ \E author \in Authors : NextBlock(author)
    \/ \E collator \in NewSessionDrain : NewSession(collator)
    \/ DelegateWithAutoCompound(NumAccounts, 1, 2, PercentMax, EnoughHint, EnoughHint,
                                EnoughHint) /\ Succeeded
    \/ SetCollatorCommission(HighCommission) /\ Succeeded
    \/ SetParachainBondAccount(2) /\ Succeeded

SpecPayout == Init /\ [][NextPayout]_vars

\* Purging: at most two blocks in a round, by either collator, and session
\* rotations, which the session pallet keeps making for as long as rounds are
\* left
NextPurge ==
    \/ \E author \in Authors : block_number <= Round.first + 1 /\ NextBlock(author)
    \/ NewSessionInOrder

\* the round advances, at whatever block: what a session rotation does to Round
RoundAdvances ==
    /\ Round.current < MaxRound
    /\ \E b \in 0..MaxBlock : Round' = RoundUpdate(Round, b)

\* blocks keep being produced and sessions keep being rotated: the round
\* advances for as long as rounds are left
SpecPurge == Init /\ [][NextPurge]_vars /\ WF_Round(RoundAdvances)

\* bonds that candidates join with: below and above MinCollatorStk
JoinBonds == {MinCandidateStk, MinCollatorStk + 1}

\* rounds that the selection scenarios run for
SelectionRounds == 3

\* Selection: sessions, a third candidate, a bond increase, candidates going
\* offline and online
NextSelection ==
    \/ block_number < SelectionRounds /\ NextBlock(SelectedCandidates[1])
    \/ \E collator \in NewSessionDrain : Round.current < SelectionRounds /\ NewSession(collator)
    \/ \E bond \in JoinBonds : JoinCandidates(NumAccounts, bond, EnoughHint) /\ Succeeded
    \/ collator_lock[1] + 2 <= InitialBalance /\ CandidateBondMore(1, 2) /\ Succeeded
    \/ \E c \in Accounts : GoOffline(c) /\ Succeeded
    \/ \E c \in Accounts : GoOnline(c) /\ Succeeded

SpecSelection == Init /\ [][NextSelection]_vars

\* Joining: every outcome of join_candidates, with a delegator and with
\* candidates leaving the pool
JoinHints == {0, 1, 2, EnoughHint}
NextJoin ==
    \/ \E acc \in Accounts, bond \in {MinCandidateStk - 1, MinCandidateStk, InitialBalance + 1},
          candidate_count \in JoinHints : JoinCandidates(acc, bond, candidate_count)
    \/ Delegate(NumAccounts, 1, MinDelegatorStk, EnoughHint, EnoughHint) /\ Succeeded
    \/ \E c \in Accounts : GoOffline(c) /\ Succeeded
    \/ \E c \in Accounts : GoOnline(c) /\ Succeeded

SpecJoin == Init /\ [][NextJoin]_vars

\* rounds that the exit scenarios run for
ExitRounds == 4

\* Leaving: candidates schedule, cancel and execute their exit (every outcome
\* of execute_leave_candidates) while rounds pass
NextExit ==
    \/ block_number < ExitRounds /\ NextBlock(SelectedCandidates[1])
    \/ \E collator \in NewSessionDrain : Round.current < ExitRounds /\ NewSession(collator)
    \/ JoinCandidates(3, MinCandidateStk, EnoughHint) /\ Succeeded
    \/ Delegate(NumAccounts, 1, MinDelegatorStk, EnoughHint, EnoughHint) /\ Succeeded
    \/ \E c \in {1, 3} : ScheduleLeaveCandidates(c, EnoughHint) /\ Succeeded
    \/ \E c \in {1, 3} : CancelLeaveCandidates(c, EnoughHint) /\ Succeeded
    \/ \E c \in {1, 3}, hint \in {0, EnoughHint} : ExecuteLeaveCandidates(c, hint)

SpecExit == Init /\ [][NextExit]_vars

\* rounds that the staking scenarios run for
StakeRounds == 4
Delegators == Accounts \ {1, 2}
\* what each delegator delegates: the last one more than the others, auto-compounding
StakeOf(d) == IF d = NumAccounts THEN 2 ELSE 1
CompoundOf(d) == IF d = NumAccounts THEN PercentMax ELSE 0

\* Staking: every stake-changing call towards candidate 1 (successful calls),
\* its exit and return, one block per round; delegations are made in the first
\* round and requests are scheduled in the first two
NextStake ==
    \/ block_number = Round.first /\ NextBlock(SelectedCandidates[1])
    \/ \E collator \in NewSessionDrain : Round.current < StakeRounds /\ NewSession(collator)
    \/ \E d \in Delegators :
          /\ Round.current = 1
          /\ DelegateWithAutoCompound(d, 1, StakeOf(d), CompoundOf(d), EnoughHint, EnoughHint,
                                      EnoughHint)
          /\ Succeeded
    \/ delegator_lock[NumAccounts] <= StakeOf(NumAccounts)
          /\ DelegatorBondMore(NumAccounts, 1, 1) /\ Succeeded
    \/ \E d \in Delegators :
          Round.current <= 2 /\ ScheduleRevokeDelegation(d, 1) /\ Succeeded
    \/ Round.current <= 2 /\ ScheduleDelegatorBondLess(NumAccounts, 1, 1) /\ Succeeded
    \/ \E d \in Delegators : ExecuteDelegationRequest(d, 1) /\ Succeeded
    \/ collator_lock[1] <= GenesisBond /\ CandidateBondMore(1, 1) /\ Succeeded
    \/ Round.current <= 2 /\ ScheduleCandidateBondLess(1, 1) /\ Succeeded
    \/ ExecuteCandidateBondLess(1) /\ Succeeded
    \/ Round.current <= 2 /\ ScheduleLeaveCandidates(1, EnoughHint) /\ Succeeded
    \/ ExecuteLeaveCandidates(1, EnoughHint) /\ Succeeded
    \/ JoinCandidates(1, MinCandidateStk, EnoughHint) /\ Succeeded

SpecStake == Init /\ [][NextStake]_vars

\* rounds that the status scenarios run for
StatusRounds == 3

\* Status: candidates 1 and 3 join, go offline and online, schedule, cancel and
\* execute their exit (successful calls) while stake changes and rounds pass,
\* one block per round
NextStatus ==
    \/ block_number = Round.first /\ NextBlock(SelectedCandidates[1])
    \/ \E collator \in NewSessionDrain : Round.current < StatusRounds /\ NewSession(collator)
    \/ JoinCandidates(3, MinCollatorStk, EnoughHint) /\ Succeeded
    \/ \E c \in {1, 3} : GoOffline(c) /\ Succeeded
    \/ \E c \in {1, 3} : GoOnline(c) /\ Succeeded
    \/ \E c \in {1, 3} : ScheduleLeaveCandidates(c, EnoughHint) /\ Succeeded
    \/ \E c \in {1, 3} : CancelLeaveCandidates(c, EnoughHint) /\ Succeeded
    \/ \E c \in {1, 3} : ExecuteLeaveCandidates(c, EnoughHint) /\ Succeeded
    \/ collator_lock[1] <= GenesisBond /\ CandidateBondMore(1, 1) /\ Succeeded
    \/ Delegate(NumAccounts, 1, MinDelegatorStk, EnoughHint, EnoughHint) /\ Succeeded

SpecStatus == Init /\ [][NextStatus]_vars

\* Status transitions: accounts 1 and 3 call the four status operations in
\* every status, also as non-candidates and with a count hint that is too
\* low (every outcome), while 3 joins, exits are executed, stake changes and
\* rounds pass, one block per round
NextTransition ==
    \/ block_number = Round.first /\ NextBlock(SelectedCandidates[1])
    \/ \E collator \in NewSessionDrain : Round.current < StatusRounds /\ NewSession(collator)
    \/ JoinCandidates(3, MinCollatorStk, EnoughHint) /\ Succeeded
    \/ \E c \in {1, 3} : GoOffline(c)
    \/ \E c \in {1, 3} : GoOnline(c)
    \/ \E c \in {1, 3}, hint \in {0, EnoughHint} : ScheduleLeaveCandidates(c, hint)
    \/ \E c \in {1, 3}, hint \in {0, EnoughHint} : CancelLeaveCandidates(c, hint)
    \/ \E c \in {1, 3} : ExecuteLeaveCandidates(c, EnoughHint) /\ Succeeded
    \/ Delegate(NumAccounts, 1, MinDelegatorStk, EnoughHint, EnoughHint) /\ Succeeded

SpecTransition == Init /\ [][NextTransition]_vars

HintValues == {0, EnoughHint}

\* Hints: every call that takes a count hint, with a hint of 0 and with a
\* sufficient one (every outcome), within the genesis round
NextHint ==
    \/ \E hint \in HintValues : JoinCandidates(3, MinCandidateStk, hint)
    \/ \E c \in {1, 3}, hint \in HintValues : ScheduleLeaveCandidates(c, hint)
    \/ \E c \in {1, 3}, hint \in HintValues : CancelLeaveCandidates(c, hint)
    \/ \E c \in {1, 3}, hint \in HintValues : ExecuteLeaveCandidates(c, hint)
    \/ \E cd_hint \in HintValues, d_hint \in HintValues :
          Delegate(NumAccounts - 1, 1, MinDelegatorStk, cd_hint, d_hint)
    \/ \E pct \in {0, PercentMax}, cd_hint \in HintValues, ac_hint \in HintValues,
          d_hint \in HintValues :
          DelegateWithAutoCompound(NumAccounts, 1, MinDelegatorStk, pct, cd_hint, ac_hint,
                                   d_hint)
    \/ \E d \in {NumAccounts - 1, NumAccounts}, ac_hint \in HintValues, d_hint \in HintValues :
          SetAutoCompound(d, 1, PercentMax, ac_hint, d_hint)

SpecHint == Init /\ [][NextHint]_vars

\* rounds that the lock scenarios run for
LockRounds == 4
\* what each delegator delegates to candidate 1: the last one more than the
\* others (it takes the top place), auto-compounding
LockStakeOf(d) == IF d = NumAccounts THEN 2 ELSE 1

\* Locks: delegators of candidate 1, one of them also delegating to candidate 2
\* (successful calls): kicks, revokes, decreases, compounding and the exit of
\* candidate 1, one block per round; delegations are made in the first round
\* and requests are scheduled in the first two
NextLock ==
    \/ block_number = Round.first /\ NextBlock(SelectedCandidates[1])
    \/ \E collator \in NewSessionDrain : Round.current < LockRounds /\ NewSession(collator)
    \/ \E d \in Delegators :
          /\ Round.current = 1
          /\ DelegateWithAutoCompound(d, 1, LockStakeOf(d), CompoundOf(d), EnoughHint,
                                      EnoughHint, EnoughHint)
          /\ Succeeded
    \/ /\ Round.current = 1
       /\ Delegate(NumAccounts - 1, 2, MinDelegation, EnoughHint, EnoughHint)
       /\ Succeeded
    \/ \E d \in Delegators : Round.current <= 2 /\ ScheduleRevokeDelegation(d, 1) /\ Succeeded
    \/ Round.current <= 2 /\ ScheduleDelegatorBondLess(NumAccounts, 1, 1) /\ Succeeded
    \/ \E d \in Delegators : ExecuteDelegationRequest(d, 1) /\ Succeeded
    \/ Round.current <= 2 /\ ScheduleLeaveCandidates(1, EnoughHint) /\ Succeeded
    \/ ExecuteLeaveCandidates(1, EnoughHint) /\ Succeeded

SpecLock == Init /\ [][NextLock]_vars

\* rounds that the request scenarios run for
RequestRounds == 3
Requesters == {NumAccounts - 1, NumAccounts}

\* Requests: two delegators of candidate 1 schedule, execute and cancel
\* requests (every outcome) and one bonds more, one block per round;
\* delegations are made in the first round
NextRequest ==
    \/ block_number = Round.first /\ NextBlock(SelectedCandidates[1])
    \/ \E collator \in NewSessionDrain : Round.current < RequestRounds /\ NewSession(collator)
    \/ \E d \in Requesters :
          /\ Round.current = 1
          /\ Delegate(d, 1, MinDelegation + 1, EnoughHint, EnoughHint)
          /\ Succeeded
    \/ \E d \in Requesters : ScheduleRevokeDelegation(d, 1)
    \/ \E d \in Requesters : ScheduleDelegatorBondLess(d, 1, 1)
    \/ \E d \in Requesters : ExecuteDelegationRequest(d, 1)
    \/ \E d \in Requesters : CancelDelegationRequest(d, 1)
    \/ delegator_lock[NumAccounts] <= MinDelegation + 1
          /\ DelegatorBondMore(NumAccounts, 1, 1) /\ Succeeded

SpecRequest == Init /\ [][NextRequest]_vars

\* rounds that the bucket scenarios run for
BucketRounds == 4
\* what each delegator delegates to candidate 1: 1, 2 and 3
BucketStakeOf(d) == d - 2

\* Buckets: three delegators compete for the top and the bottom place of
\* candidate 1 (successful calls): delegations, kicks, bond-more, revokes,
\* decreases and compounding, one block per round; delegations and requests
\* are made in the first round, bond-more in the first two
NextBucket ==
    \/ block_number = Round.first /\ NextBlock(SelectedCandidates[1])
    \/ \E collator \in NewSessionDrain : Round.current < BucketRounds /\ NewSession(collator)
    \/ \E d \in Delegators :
          /\ Round.current = 1
          /\ DelegateWithAutoCompound(d, 1, BucketStakeOf(d), CompoundOf(d), EnoughHint,
                                      EnoughHint, EnoughHint)
          /\ Succeeded
    \/ \E d \in Delegators :
          /\ Round.current <= 2 /\ delegator_lock[d] <= BucketStakeOf(d)
          /\ DelegatorBondMore(d, 1, 2) /\ Succeeded
    \/ \E d \in Delegators : Round.current = 1 /\ ScheduleRevokeDelegation(d, 1) /\ Succeeded
    \/ \E d \in Delegators, less \in {1, 2} :
          Round.current = 1 /\ ScheduleDelegatorBondLess(d, 1, less) /\ Succeeded
    \/ \E d \in Delegators : ExecuteDelegationRequest(d, 1) /\ Succeeded

SpecBucket == Init /\ [][NextBucket]_vars

\* the blocks_per_round that a genesis config may carry, rounds that the
\* round-length scenarios run for, and the values that governance proposes
MaxGenesisLength == 3
RoundRounds == 3
MaxProposed == 4

InitRound == \E blocks_per_round \in 1..MaxGenesisLength : InitOf(GenesisBuildOf(blocks_per_round))

\* Round length: any genesis round length, blocks, sessions, and every outcome
\* of set_total_selected and set_blocks_per_round
NextRound ==
    \/ NextBlock(SelectedCandidates[1])
    \/ \E collator \in NewSessionDrain : Round.current < RoundRounds /\ NewSession(collator)
    \/ \E new \in 1..MaxProposed : SetTotalSelected(new)
    \/ \E new \in 1..MaxProposed : SetBlocksPerRound(new)

SpecRound == InitRound /\ [][NextRound]_vars

\* what governance proposes: the stored value, another one, and an invalid one
ProposedExpectations ==
    {GenesisInflationConfig.expect, Range(ExpectMin - 1, ExpectMin + 1, ExpectMax),
     Range(ExpectMax, ExpectMin + 1, ExpectMin)}
ProposedSchedules ==
    {GenesisInflationConfig.annual,
     Range(GenesisInflationConfig.annual.ideal, GenesisInflationConfig.annual.ideal,
           GenesisInflationConfig.annual.ideal),
     Range(GenesisInflationConfig.annual.max, GenesisInflationConfig.annual.ideal,
           GenesisInflationConfig.annual.min)}
ProposedInvulnerables == {<<>>, <<1>>, <<1, 2, 3>>}
MaxProposedLength == 3

\* Governance: every outcome of every setter, within the genesis round
NextGovernance ==
    \/ \E expectations \in ProposedExpectations : SetStakingExpectations(expectations)
    \/ \E schedule \in ProposedSchedules : SetInflation(schedule)
    \/ \E new \in {ZeroAccount, 2} : SetParachainBondAccount(new)
    \/ \E new \in {GenesisParachainBondReservePercent, PercentMax \div 2} :
          SetParachainBondReservePercent(new)
    \/ \E new \in 1..MaxProposedLength : SetTotalSelected(new)
    \/ \E new \in {GenesisCollatorCommission, HighCommission} : SetCollatorCommission(new)
    \/ \E new \in 1..MaxProposedLength : SetBlocksPerRound(new)
    \/ \E new \in ProposedInvulnerables : SetInvulnerables(new)

SpecGovernance == Init /\ [][NextGovernance]_vars

\* rounds that the replica scenarios run for
ReplicaRounds == 4

\* Replicas: block authors, session rotations with the drain in storage
\* order, and calls with every outcome
NextReplica ==
    \/ \E author \in Authors : NextBlock(author)
    \/ Round.current < ReplicaRounds /\ NewSessionInOrder
    \/ \E hint \in HintValues :
          DelegateWithAutoCompound(NumAccounts, 1, MinDelegation + 1, PercentMax, hint,
                                   EnoughHint, EnoughHint)
    \/ \E hint \in HintValues : JoinCandidates(3, MinCollatorStk + 1, hint)
    \/ SetCollatorCommission(HighCommission)

SpecReplica == Init /\ [][NextReplica]_vars

\* rounds that the compounding scenarios run for
CompoundRounds == 4
\* auto-compound percents that the delegator chooses from
LowPercent == 1
CompoundPercents == {0, LowPercent, PercentMax}

\* Compounding: the last account delegates 2 to candidate 1 in the first
\* round with a percent of its choice; two other delegators arrive later with
\* more (the first moves it to the bottom bucket, the second kicks it), it
\* may schedule a revoke; one block per round by candidate 1 (successful
\* calls)
NextCompound ==
    \/ block_number = Round.first /\ NextBlock(1)
    \/ Round.current < CompoundRounds /\ NewSessionInOrder
    \/ \E pct \in CompoundPercents :
          /\ Round.current = 1
          /\ DelegateWithAutoCompound(NumAccounts, 1, 2, pct, EnoughHint, EnoughHint,
                                      EnoughHint)
          /\ Succeeded
    \/ \E d \in {NumAccounts - 2, NumAccounts - 1} :
          /\ Round.current >= 2
          /\ Delegate(d, 1, 3, EnoughHint, EnoughHint)
          /\ Succeeded
    \/ Round.current <= 2 /\ ScheduleRevokeDelegation(NumAccounts, 1) /\ Succeeded

SpecCompound == Init /\ [][NextCompound]_vars

\* a runtime whose candidates hold two top delegations
TwoTopDelegations == 2
InitTwoTop ==
    InitOf([GenesisBuild EXCEPT !.max_top_delegations_per_candidate = TwoTopDelegations])

\* Two snapshot delegators: in a runtime with two top places the last two
\* accounts delegate 2 to candidate 1 in the first round, with or without
\* auto-compounding, and may schedule a revoke once they are in a snapshot;
\* one block per round by candidate 1 (successful calls)
NextTwoTop ==
    \/ block_number = Round.first /\ NextBlock(1)
    \/ Round.current < CompoundRounds /\ NewSessionInOrder
    \/ \E d \in {NumAccounts - 1, NumAccounts}, pct \in {0, PercentMax} :
          /\ Round.current = 1
          /\ DelegateWithAutoCompound(d, 1, 2, pct, EnoughHint, EnoughHint, EnoughHint)
          /\ Succeeded
    \/ \E d \in {NumAccounts - 1, NumAccounts} :
          /\ Round.current \in 2..3
          /\ ScheduleRevokeDelegation(d, 1)
          /\ Succeeded

SpecTwoTop == InitTwoTop /\ [][NextTwoTop]_vars

\* rounds that the commission scenarios run for
CommissionRounds == 4
\* the parachain bond percents that governance chooses from
HalfPercent == PercentMax \div 2
\* the annual inflation that governance sets: the ideal rate throughout
FlatSchedule ==
    Range(GenesisInflationConfig.annual.ideal, GenesisInflationConfig.annual.ideal,
          GenesisInflationConfig.annual.ideal)

\* Commission: a delegator of candidate 1 from the first round, at most two
\* blocks in a round (the first by candidate 1, the second by candidate 2),
\* sessions in storage order, and governance changing the commission, the
\* parachain bond account and percent and the inflation from the third round
\* on, when the first record has been written (successful calls)
NextCommission ==
    \/ block_number = Round.first /\ NextBlock(1)
    \/ block_number = Round.first + 1 /\ NextBlock(2)
    \/ Round.current < CommissionRounds /\ NewSessionInOrder
    \/ /\ Round.current = 1
       /\ Delegate(NumAccounts, 1, 2, EnoughHint, EnoughHint)
       /\ Succeeded
    \/ \E new \in {GenesisCollatorCommission, HighCommission} :
          Round.current > RewardPaymentDelay /\ SetCollatorCommission(new) /\ Succeeded
    \/ Round.current > RewardPaymentDelay /\ SetParachainBondAccount(2) /\ Succeeded
    \/ \E new \in {GenesisParachainBondReservePercent, HalfPercent} :
          /\ Round.current > RewardPaymentDelay
          /\ SetParachainBondReservePercent(new)
          /\ Succeeded
    \/ \E schedule \in {GenesisInflationConfig.annual, FlatSchedule} :
          Round.current > RewardPaymentDelay /\ SetInflation(schedule) /\ Succeeded

SpecCommission == Init /\ [][NextCommission]_vars

\* a chain spec whose candidates bond less than MinCollatorStk: none can be
\* selected at genesis
LowGenesisCandidates == <<Bond(1, MinCandidateStk), Bond(2, MinCandidateStk)>>
InitFallback ==
    \E candidates \in {GenesisCandidates, LowGenesisCandidates} :
        InitOf(GenesisBuildWith(candidates, GenesisBlocksPerRound))

\* Fallback: from either genesis, candidates 1 and 2 go offline and online,
\* bond more once and leave, so that selections with and without selectable
\* candidates follow each other in any order, with one block per round by any
\* of the two and payouts in storage order (successful calls)
NextFallback ==
    \/ \E author \in {1, 2} : block_number = Round.first /\ NextBlock(author)
    \/ NewSessionInOrder
    \/ \E c \in {1, 2} : GoOffline(c) /\ Succeeded
    \/ \E c \in {1, 2} : GoOnline(c) /\ Succeeded
    \/ \E c \in {1, 2} :
          collator_lock[c] < MinCollatorStk /\ CandidateBondMore(c, 1) /\ Succeeded
    \/ ScheduleLeaveCandidates(1, EnoughHint) /\ Succeeded
    \/ ExecuteLeaveCandidates(1, EnoughHint) /\ Succeeded

SpecFallback == InitFallback /\ [][NextFallback]_vars

\* rounds that the role scenarios run for
RoleRounds == 3
\* the accounts that change their role
RoleAccounts == {3, NumAccounts}

\* Roles: two accounts and candidate 1 call join_candidates and delegate in
\* every role (every outcome); the two leave the candidates or revoke their
\* delegation and may then take the other role, one block per round
NextRole ==
    \/ block_number = Round.first /\ NextBlock(SelectedCandidates[1])
    \/ Round.current < RoleRounds /\ NewSessionInOrder
    \/ \E acc \in RoleAccounts : JoinCandidates(acc, MinCandidateStk, EnoughHint)
    \/ \E d \in RoleAccounts \cup {1}, amount \in {0, MinDelegatorStk, InitialBalance + 1} :
          Delegate(d, 2, amount, EnoughHint, EnoughHint)
    \/ \E c \in RoleAccounts : ScheduleLeaveCandidates(c, EnoughHint) /\ Succeeded
    \/ \E c \in RoleAccounts : ExecuteLeaveCandidates(c, EnoughHint) /\ Succeeded
    \/ \E d \in RoleAccounts : ScheduleRevokeDelegation(d, 2) /\ Succeeded
    \/ \E d \in RoleAccounts : ExecuteDelegationRequest(d, 2) /\ Succeeded

SpecRole == Init /\ [][NextRole]_vars

(***************************************************************************)
(* Properties.                                                             *)
(***************************************************************************)
Abs(x) == IF x < 0 THEN 0 - x ELSE x

\* C1: new_session closes the round only when block b has b - round.first >=
\* round.length; called earlier, it leaves Round.current and Round.first as
\* they are and prepares no payout, selects nothing and snapshots nothing.
C1_RoundClosesOnlyWhenDue ==
    [][(lastOp'.op = "new_session" /\ block_number - Round.first < Round.length)
       => /\ Round'.current = Round.current
          /\ Round'.first = Round.first
          /\ DelayedPayouts' = DelayedPayouts
          /\ SelectedCandidates' = SelectedCandidates
          /\ AtStake' = AtStake]_vars

\* C2: the drip payout completes: every collator with AwardedPts[r][c] is paid,
\* N collators after N session rotations, so that once the round is
\* TotalSelected rotations past its payment delay AwardedPts[r] is empty.
C2_DripPayoutCompletes ==
    \A r \in DOMAIN Points :
        Round.current >= r + RewardPaymentDelay + TotalSelected
            => AwardedIn(Storage, r) = {}

\* C3: once the payouts of round r have finished (DelayedPayouts[r] prepared,
\* AwardedPts[r] drained), the sum of the Rewarded amounts for r equals
\* DelayedPayouts[r].total_staking_reward up to Points[r] units.
C3_RewardedEqualsStakingReward ==
    \A r \in DOMAIN DelayedPayouts :
        AwardedIn(Storage, r) = {}
            => Abs(GetOr(rewarded, r, 0) - DelayedPayouts[r].total_staking_reward)
                   <= GetOr(Points, r, 0)

\* stake that backs candidate c: its bond and both of its buckets
BackingOf(c) == CandidateInfo[c].bond + TopDelegations[c].total + BottomDelegations[c].total

\* C4: in every reachable state, so after every operation (join, bond more and
\* less, delegate, executed revoke and decrease, kick, execute_leave_candidates,
\* compounding), Total is the sum over the existing candidates of bond + top
\* bucket total + bottom bucket total.
C4_TotalIsSumOfBacking ==
    /\ DOMAIN TopDelegations = DOMAIN CandidateInfo
    /\ DOMAIN BottomDelegations = DOMAIN CandidateInfo
    /\ Total = SumOver(DOMAIN CandidateInfo, [c \in DOMAIN CandidateInfo |-> BackingOf(c)])

\* C4 witness: a payout has just compounded a reward into a delegation of
\* candidate 1, whose buckets are both full, and Total has grown with it
C4_Witness ==
    /\ lastOp.op = "new_session"
    /\ \E i \in 1..Len(events) : events[i][1] = "Compounded"
    /\ is_candidate(Storage, 1)
    /\ Len(TopOf(Storage, 1)) = MaxTopDelegationsPerCandidate
    /\ Len(BottomOf(Storage, 1)) = MaxBottomDelegationsPerCandidate
    /\ TopDelegations[1].total > InitialBalance
    /\ Total > NumAccounts * InitialBalance

QualifyingIn(pool) == {pool[i].owner : i \in {j \in 1..Len(pool) : pool[j].amount >= MinCollatorStk}}

\* C5: a round boundary with at least one qualifying candidate selects
\* qualifying pool candidates only, as many as TotalSelected allows, none of
\* them with less stake than a qualifying candidate left out, and stores them
\* sorted by owner ascending without duplicates.
C5_SelectionTakesTopStake ==
    [][(lastOp'.op = "new_session" /\ QualifyingIn(CandidatePool) # {})
       => LET pool == CandidatePool
              qual == QualifyingIn(pool)
              sel == SeqSet(SelectedCandidates')
          IN /\ sel \subseteq qual
             /\ Cardinality(sel) = Min2(TotalSelected, Cardinality(qual))
             /\ \A x \in sel, y \in qual \ sel :
                    BondOf(pool, y).amount <= BondOf(pool, x).amount
             /\ \A i, j \in 1..Len(SelectedCandidates') :
                    i < j => SelectedCandidates'[i] < SelectedCandidates'[j]]_vars

\* C5 witness: a session has just selected, and more candidates qualified than
\* were selected
C5_Witness ==
    /\ lastOp.op = "new_session"
    /\ Len(SelectedCandidates) = TotalSelected
    /\ SeqSet(SelectedCandidates) \subseteq QualifyingIn(CandidatePool)
    /\ Cardinality(QualifyingIn(CandidatePool)) > TotalSelected

\* C6: when selection yields no collator, SelectedCandidates stays as it was,
\* every snapshot of the previous round is copied to the new round, the round
\* advances and NewRound is emitted.
C6_FallbackKeepsState ==
    [][(lastOp'.op = "new_session" /\ compute_top_candidates(Storage) = <<>>)
       => /\ SelectedCandidates' = SelectedCandidates
          /\ \A k \in AtStakeIn(Storage, Round.current) :
                 /\ <<Round.current + 1, k[2]>> \in DOMAIN AtStake'
                 /\ AtStake'[<<Round.current + 1, k[2]>>] = AtStake[k]
          /\ Round'.current = Round.current + 1
          /\ \E i \in 1..Len(events') :
                 events'[i][1] = "NewRound" /\ events'[i][3] = Round.current + 1]_vars

\* C6 witness: a session has just fallen back (nobody qualifies), with
\* snapshots carried into the new round
C6_Witness ==
    /\ lastOp.op = "new_session"
    /\ QualifyingIn(CandidatePool) = {}
    /\ SelectedCandidates # <<>>
    /\ \A c \in SeqSet(SelectedCandidates) : <<Round.current, c>> \in DOMAIN AtStake

\* C7: when selection yields no collator, new_session returns the previous
\* SelectedCandidates, never an empty collator set.
C7_FallbackReturnsPreviousSet ==
    [][(lastOp'.op = "new_session" /\ compute_top_candidates(Storage) = <<>>)
       => /\ lastOp'.ret = Some(SelectedCandidates)
          /\ lastOp'.ret # Some(<<>>)]_vars

\* C8: in every reachable state an account is in CandidatePool exactly when it
\* is a candidate whose status is Active; an Idle or Leaving candidate is not
\* in the pool, so selection cannot pick it.
C8_PoolIsTheActiveCandidates ==
    /\ \A a \in Accounts :
          OrderedSetContains(CandidatePool, a)
              <=> (is_candidate(Storage, a) /\ IsActive(CandidateInfo[a]))
    /\ \A a \in SeqSet(compute_top_candidates(Storage)) :
          is_candidate(Storage, a) /\ IsActive(CandidateInfo[a])

\* C8 witness: one candidate is Idle and another is Leaving, both out of the
\* pool, after a session
C8_Witness ==
    /\ Round.current > 1
    /\ \E a, b \in DOMAIN CandidateInfo :
          /\ CandidateInfo[a].status = "Idle"
          /\ IsLeaving(CandidateInfo[b])
          /\ ~OrderedSetContains(CandidatePool, a)
          /\ ~OrderedSetContains(CandidatePool, b)

\* schedule_leave_candidates in round n leaves the candidate Leaving(n + LeaveCandidatesDelay)
ScheduledExitIsDelayed ==
    (lastOp'.op = "schedule_leave_candidates" /\ lastOp'.err = "Ok")
       => /\ IsLeaving(CandidateInfo'[lastOp'.who])
          /\ CandidateInfo'[lastOp'.who].exit = Round.current + LeaveCandidatesDelay

\* C9 as stated: after schedule_leave_candidates in round n the candidate is
\* Leaving(n + LeaveCandidatesDelay); execute_leave_candidates on a candidate
\* is rejected with CandidateCannotLeaveYet in every round before the exit
\* round, with CandidateNotLeaving when the candidate is not Leaving, and
\* succeeds once the current round has reached the exit round.
C9_ExitTimingAsStated ==
    [][/\ ScheduledExitIsDelayed
       /\ (lastOp'.op = "execute_leave_candidates" /\ is_candidate(Storage, lastOp'.target))
             => LET state == CandidateInfo[lastOp'.target]
                IN /\ (IsLeaving(state) /\ Round.current < state.exit)
                          => lastOp'.err = "CandidateCannotLeaveYet"
                   /\ ~IsLeaving(state) => lastOp'.err = "CandidateNotLeaving"
                   /\ (IsLeaving(state) /\ Round.current >= state.exit)
                          => lastOp'.err = "Ok"]_vars

\* C9 amended: the delegation-count hint is tested before the exit round.  With
\* a hint below the candidate's delegation_count the call is rejected with
\* TooLowCandidateDelegationCountToLeaveCandidates in any round and status;
\* with a sufficient hint it is rejected with CandidateCannotLeaveYet before
\* the exit round, with CandidateNotLeaving when the candidate is not Leaving,
\* and succeeds, removing the candidate, once the exit round is reached.
C9_ExitTimingWithHint ==
    [][/\ ScheduledExitIsDelayed
       /\ (lastOp'.op = "execute_leave_candidates" /\ is_candidate(Storage, lastOp'.target))
             => LET state == CandidateInfo[lastOp'.target]
                IN /\ lastOp'.hint < state.delegation_count
                          => lastOp'.err = "TooLowCandidateDelegationCountToLeaveCandidates"
                   /\ (lastOp'.hint >= state.delegation_count /\ IsLeaving(state)
                         /\ Round.current < state.exit)
                          => lastOp'.err = "CandidateCannotLeaveYet"
                   /\ (lastOp'.hint >= state.delegation_count /\ ~IsLeaving(state))
                          => lastOp'.err = "CandidateNotLeaving"
                   /\ (lastOp'.hint >= state.delegation_count /\ IsLeaving(state)
                         /\ Round.current >= state.exit)
                          => /\ lastOp'.err = "Ok"
                             /\ ~is_candidate(Storage', lastOp'.target)
                   /\ lastOp'.err # "Ok" => UNCHANGED chainState]_vars

\* C9 witness: the exit of candidate 1, which has a delegation, has just been
\* executed, LeaveCandidatesDelay rounds or more after the genesis round
C9_Witness ==
    /\ lastOp.op = "execute_leave_candidates"
    /\ lastOp.err = "Ok"
    /\ lastOp.target = 1
    /\ Round.current >= 1 + LeaveCandidatesDelay
    /\ ~is_candidate(Storage, 1)
    /\ ~is_delegator(Storage, NumAccounts)
    /\ delegator_lock[NumAccounts] = 0

\* C10: join_candidates succeeds exactly when the caller is neither candidate
\* nor delegator, bond >= MinCandidateStk, the hint is >= |CandidatePool| and
\* the stakable free balance is >= bond.  On success the caller is an Active
\* candidate with bond = total_counted = bond, empty buckets, the pool entry
\* (caller, bond), collator lock = bond, and Total has grown by bond.  A failed
\* guard returns its error and changes no state.
C10_JoinCandidatesContract ==
    [][lastOp'.op = "join_candidates"
       => LET acc == lastOp'.who
              bond == lastOp'.amount
              err == lastOp'.err
          IN /\ err = "Ok" <=> /\ ~is_candidate(Storage, acc)
                               /\ ~is_delegator(Storage, acc)
                               /\ bond >= MinCandidateStk
                               /\ lastOp'.hint >= Len(CandidatePool)
                               /\ get_collator_stakable_free_balance(Storage, acc) >= bond
             /\ err = "Ok"
                   => /\ acc \in DOMAIN CandidateInfo'
                      /\ CandidateInfo'[acc].status = "Active"
                      /\ CandidateInfo'[acc].bond = bond
                      /\ CandidateInfo'[acc].total_counted = bond
                      /\ CandidateInfo'[acc].delegation_count = 0
                      /\ TopDelegations'[acc] = [delegations |-> <<>>, total |-> 0]
                      /\ BottomDelegations'[acc] = [delegations |-> <<>>, total |-> 0]
                      /\ \E i \in 1..Len(CandidatePool') :
                             CandidatePool'[i] = [owner |-> acc, amount |-> bond]
                      /\ collator_lock'[acc] = bond
                      /\ Total' = Total + bond
             /\ err = "CandidateExists" => is_candidate(Storage, acc)
             /\ err = "DelegatorExists" => is_delegator(Storage, acc)
             /\ err = "CandidateBondBelowMin" => bond < MinCandidateStk
             /\ err = "TooLowCandidateCountWeightHintJoinCandidates"
                   => lastOp'.hint < Len(CandidatePool)
             /\ err = "InsufficientBalance"
                   => get_collator_stakable_free_balance(Storage, acc) < bond
             /\ err # "Ok" => (UNCHANGED chainState /\ events' = <<>>)]_vars

\* C10 witness: an account has just joined while a candidate is out of the
\* pool, with a hint equal to the size of the pool before the call
C10_Witness ==
    /\ lastOp.op = "join_candidates"
    /\ lastOp.err = "Ok"
    /\ lastOp.hint = Len(CandidatePool) - 1
    /\ \E c \in DOMAIN CandidateInfo : ~IsActive(CandidateInfo[c])
    /\ OrderedSetContains(CandidatePool, lastOp.who)
    /\ collator_lock[lastOp.who] = lastOp.amount

\* the errors that report a hint that is too low
TooLowErrors ==
    { "TooLowCandidateCountWeightHintJoinCandidates",
      "TooLowCandidateCountToLeaveCandidates",
      "TooLowCandidateCountWeightHintCancelLeaveCandidates",
      "TooLowCandidateDelegationCountToLeaveCandidates",
      "TooLowDelegationCountToDelegate",
      "TooLowCandidateDelegationCountToDelegate",
      "TooLowCandidateAutoCompoundingDelegationCountToDelegate",
      "TooLowDelegationCountToAutoCompound",
      "TooLowCandidateAutoCompoundingDelegationCountToAutoCompound" }

\* what a hint is compared with, in the state before the call
DelegationCountOf(c) == IF is_candidate(Storage, c) THEN CandidateInfo[c].delegation_count ELSE 0
DelegationsHeldBy(d) == IF is_delegator(Storage, d) THEN Len(DelegatorState[d].delegations) ELSE 0
AutoCompoundCountOf(c) == Len(AutoCompoundingDelegations[c])

\* the call recorded in op carries a hint below the cardinality it stands for;
\* with_zero_percent: count the auto-compound hint of a delegation whose
\* percent is zero as well
HintTooLow(op, with_zero_percent) ==
    \/ /\ op.op \in {"join_candidates", "schedule_leave_candidates", "cancel_leave_candidates"}
       /\ op.hint < Len(CandidatePool)
    \/ /\ op.op = "execute_leave_candidates"
       /\ op.hint < DelegationCountOf(op.target)
    \/ /\ op.op = "delegate"
       /\ \/ op.hint[1] < DelegationCountOf(op.target)
          \/ op.hint[2] < DelegationsHeldBy(op.who)
    \/ /\ op.op = "delegate_with_auto_compound"
       /\ \/ op.hint[1] < DelegationCountOf(op.target)
          \/ op.hint[3] < DelegationsHeldBy(op.who)
          \/ /\ op.hint[2] < AutoCompoundCountOf(op.target)
             /\ (with_zero_percent \/ op.hint[4] # 0)
    \/ /\ op.op = "set_auto_compound"
       /\ \/ op.hint[1] < AutoCompoundCountOf(op.target)
          \/ op.hint[2] < DelegationsHeldBy(op.who)

\* C11 as stated: a call whose hint is below the real cardinality is rejected
\* with a TooLow... error and changes no state.
C11_LowHintGivesTooLowError ==
    [][HintTooLow(lastOp', TRUE)
       => /\ lastOp'.err \in TooLowErrors
          /\ UNCHANGED chainState]_vars

\* C11 amended: a call whose hint is below the real cardinality is rejected
\* and changes no state and emits nothing; the error is the TooLow... error
\* of the hint once the guards that the code tests before the hint pass, and
\* a TooLow... error is returned for a low hint only.  The auto-compound hint
\* of a delegation counts only when its percent is not zero.
C11_LowHintIsRejected ==
    [][/\ HintTooLow(lastOp', FALSE)
             => /\ lastOp'.err # "Ok"
                /\ UNCHANGED chainState
                /\ events' = <<>>
       /\ lastOp'.err \in TooLowErrors => HintTooLow(lastOp', FALSE)
       /\ (/\ lastOp'.op = "join_candidates"
           /\ lastOp'.hint < Len(CandidatePool)
           /\ ~is_candidate(Storage, lastOp'.who)
           /\ ~is_delegator(Storage, lastOp'.who)
           /\ lastOp'.amount >= MinCandidateStk)
             => lastOp'.err = "TooLowCandidateCountWeightHintJoinCandidates"
       /\ (/\ lastOp'.op = "schedule_leave_candidates"
           /\ lastOp'.hint < Len(CandidatePool)
           /\ is_candidate(Storage, lastOp'.who)
           /\ ~IsLeaving(CandidateInfo[lastOp'.who]))
             => lastOp'.err = "TooLowCandidateCountToLeaveCandidates"
       /\ (/\ lastOp'.op = "cancel_leave_candidates"
           /\ lastOp'.hint < Len(CandidatePool)
           /\ is_candidate(Storage, lastOp'.who)
           /\ IsLeaving(CandidateInfo[lastOp'.who]))
             => lastOp'.err = "TooLowCandidateCountWeightHintCancelLeaveCandidates"
       /\ (/\ lastOp'.op = "execute_leave_candidates"
           /\ is_candidate(Storage, lastOp'.target)
           /\ lastOp'.hint < CandidateInfo[lastOp'.target].delegation_count)
             => lastOp'.err = "TooLowCandidateDelegationCountToLeaveCandidates"]_vars

\* C11 witness: execute_leave_candidates on a Leaving candidate with two
\* delegations has just been rejected for its hint of 0
C11_Witness ==
    /\ lastOp.op = "execute_leave_candidates"
    /\ lastOp.err = "TooLowCandidateDelegationCountToLeaveCandidates"
    /\ lastOp.hint = 0
    /\ is_candidate(Storage, lastOp.target)
    /\ IsLeaving(CandidateInfo[lastOp.target])
    /\ CandidateInfo[lastOp.target].delegation_count = 2

\* C12: every delegator's total is the sum of its delegation amounts and its
\* DELEGATOR lock equals that total; an account that is not a delegator holds
\* no DELEGATOR lock (no stale lock), whatever path removed its delegations.
C12_DelegatorLockIsTotal ==
    /\ \A d \in DOMAIN DelegatorState :
          /\ DelegatorState[d].total = SumSeq(DelegatorState[d].delegations)
          /\ delegator_lock[d] = DelegatorState[d].total
          /\ DelegatorState[d].delegations # <<>>
    /\ \A a \in Accounts \ DOMAIN DelegatorState : delegator_lock[a] = 0

\* candidate 1 has left while one of its delegators still delegates to candidate 2
C12_Witness ==
    /\ lastOp.op = "execute_leave_candidates" /\ lastOp.err = "Ok" /\ lastOp.target = 1
    /\ \E d \in DOMAIN DelegatorState :
          /\ Owners(DelegatorState[d].delegations) = {2}
          /\ delegator_lock[d] = MinDelegation
    /\ \E a \in Delegators \ DOMAIN DelegatorState : delegator_lock[a] = 0

\* the pending requests of delegator d towards candidate c
PendingOf(c, d) ==
    {i \in 1..Len(DelegationScheduledRequests[c]) :
        DelegationScheduledRequests[c][i].delegator = d}

\* C13: there is never more than one pending request per (candidate,
\* delegator); a schedule_revoke_delegation or schedule_delegator_bond_less
\* call made while a request of the same pair is pending fails and leaves the
\* request, and all other state, unchanged.
C13_OnePendingRequestPerPair ==
    /\ [](\A c \in Accounts, d \in Accounts : Cardinality(PendingOf(c, d)) <= 1)
    /\ [][ (/\ lastOp'.op \in {"schedule_revoke_delegation", "schedule_delegator_bond_less"}
            /\ PendingOf(lastOp'.target, lastOp'.who) # {})
           => /\ lastOp'.err = "PendingDelegationRequestAlreadyExists"
              /\ UNCHANGED chainState
              /\ events' = <<>> ]_vars

\* a second request of a pair was refused while the first one is pending
C13_Witness ==
    /\ lastOp.op \in {"schedule_revoke_delegation", "schedule_delegator_bond_less"}
    /\ lastOp.err = "PendingDelegationRequestAlreadyExists"
    /\ Cardinality(PendingOf(lastOp.target, lastOp.who)) = 1

\* the request pending for (c, d), and what d has at stake
PendingRequest(c, d) == DelegationScheduledRequests[c][CHOOSE i \in PendingOf(c, d) : TRUE]
StakeUnchanged(d) ==
    /\ (d \in DOMAIN DelegatorState) = (d \in DOMAIN DelegatorState')
    /\ d \in DOMAIN DelegatorState =>
          /\ DelegatorState'[d].delegations = DelegatorState[d].delegations
          /\ DelegatorState'[d].total = DelegatorState[d].total
    /\ delegator_lock'[d] = delegator_lock[d]
ExecutedFor(op, c, d) ==
    op.op = "execute_delegation_request" /\ op.who = d /\ op.target = c /\ op.err = "Ok"
TookEffect(evs, c, d) ==
    \E i \in 1..Len(evs) :
        evs[i][1] \in {"DelegationRevoked", "DelegationDecreased"}
            /\ evs[i][2] = d /\ evs[i][3] = c

\* C14 (as stated): while a request of (c, d) is pending, only its execution
\* in a round >= when changes the delegations, the total or the lock of d; an
\* early execution fails and changes nothing, and a cancel removes the
\* request.
C14_PendingRequestFreezesStake ==
    [][ \A c \in Accounts, d \in Accounts :
          PendingOf(c, d) # {} =>
             \/ /\ ExecutedFor(lastOp', c, d)
                /\ Round.current >= PendingRequest(c, d).when_executable
             \/ /\ ~ExecutedFor(lastOp', c, d)
                /\ StakeUnchanged(d) ]_vars

\* C14 (amended): a request is carried out (DelegationRevoked,
\* DelegationDecreased) only by a successful execute_delegation_request in a
\* round >= when; executing earlier fails with PendingDelegationRequestNotDueYet
\* and changes nothing; scheduling changes neither the delegations, the total
\* nor the lock of the delegator, nor the buckets or Total; while the request
\* is pending only its execution and a delegator_bond_more of the delegator
\* change them; a cancel of a pending request succeeds in any round, removes
\* the request and leaves delegations, total, lock, buckets and Total as they
\* are.
C14_RequestActsOnlyWhenExecuted ==
    [][ \A c \in Accounts, d \in Accounts :
          /\ TookEffect(events', c, d) =>
                /\ ExecutedFor(lastOp', c, d)
                /\ PendingOf(c, d) # {}
                /\ Round.current >= PendingRequest(c, d).when_executable
                /\ PendingOf(c, d)' = {}
          /\ (PendingOf(c, d) # {} /\ ~ExecutedFor(lastOp', c, d)
                /\ ~(lastOp'.op = "delegator_bond_more" /\ lastOp'.who = d
                        /\ lastOp'.err = "Ok"))
             => StakeUnchanged(d)
          /\ (/\ lastOp'.op = "execute_delegation_request"
              /\ lastOp'.target = c /\ lastOp'.who = d
              /\ PendingOf(c, d) # {}
              /\ Round.current < PendingRequest(c, d).when_executable)
             => /\ lastOp'.err = "PendingDelegationRequestNotDueYet"
                /\ UNCHANGED chainState
                /\ events' = <<>>
          /\ (/\ lastOp'.op \in {"schedule_revoke_delegation", "schedule_delegator_bond_less"}
              /\ lastOp'.target = c /\ lastOp'.who = d
              /\ lastOp'.err = "Ok")
             => /\ StakeUnchanged(d)
                /\ Cardinality(PendingOf(c, d)') = 1
                /\ PendingRequest(c, d)'.when_executable
                      = Round.current + RevokeDelegationDelay
                /\ UNCHANGED << TopDelegations, BottomDelegations, Total, CandidateInfo >>
          /\ (/\ lastOp'.op = "cancel_delegation_request"
              /\ lastOp'.target = c /\ lastOp'.who = d
              /\ PendingOf(c, d) # {})
             => /\ lastOp'.err = "Ok"
                /\ PendingOf(c, d)' = {}
                /\ StakeUnchanged(d)
                /\ UNCHANGED << TopDelegations, BottomDelegations, Total, CandidateInfo >>
      ]_vars

\* a revoke scheduled in the first round was executed in the round it became due
C14_Witness ==
    /\ lastOp.op = "execute_delegation_request" /\ lastOp.err = "Ok"
    /\ Round.current = 1 + RevokeDelegationDelay
    /\ \E i \in 1..Len(events) : events[i][1] = "DelegationRevoked"
    /\ lastOp.who \notin DOMAIN DelegatorState
    /\ delegator_lock[lastOp.who] = 0

C16_RoundLengthBounds ==
    /\ Round.length >= MinBlocksPerRound
    /\ Round.length >= TotalSelected

\* C16 (what the setters guarantee): a step taken from a state in which both
\* bounds hold leads to a state in which both hold.
C16_SettersKeepRoundLengthBounds ==
    [][ C16_RoundLengthBounds => C16_RoundLengthBounds' ]_vars

\* storage items and ledger other than Round and InflationConfig
chainStateButRound ==
    << CandidateInfo, DelegatorState, DelegationScheduledRequests,
       AutoCompoundingDelegations, TopDelegations, BottomDelegations, CandidatePool,
       SelectedCandidates, Total, AtStake, DelayedPayouts, Staked, Points, AwardedPts,
       TotalSelected, CollatorCommission, ParachainBondInfo, InvulnerableCandidates,
       free_balance, collator_lock, delegator_lock >>

\* set_blocks_per_round(new) has just succeeded with new below the old length
\* at a block b with b - round.first >= new
ShortenedPastDue(op) ==
    /\ op.op = "set_blocks_per_round" /\ op.err = "Ok"
    /\ op.amount < op.hint
    /\ block_number - Round.first >= op.amount

SameValue(op) ==
    \/ op.op = "set_staking_expectations" /\ op.amount = InflationConfig.expect
    \/ op.op = "set_inflation" /\ op.amount = InflationConfig.annual
    \/ op.op = "set_parachain_bond_account" /\ op.target = ParachainBondInfo.account
    \/ op.op = "set_parachain_bond_reserve_percent" /\ op.amount = ParachainBondInfo.percent
    \/ op.op = "set_total_selected" /\ op.amount = TotalSelected
    \/ op.op = "set_collator_commission" /\ op.amount = CollatorCommission
    \/ op.op = "set_blocks_per_round" /\ op.amount = Round.length
    \/ op.op = "set_invulnerables" /\ op.amount = InvulnerableCandidates

\* C18: every governance setter rejects a call whose new value equals the
\* stored one with NoWritingSameValue, leaves the state unchanged and emits no
\* event.
C18_SettersRejectSameValue ==
    [][ SameValue(lastOp') =>
          /\ lastOp'.err = "NoWritingSameValue"
          /\ UNCHANGED chainState
          /\ events' = <<>> ]_vars

\* C18 (what holds): the same, for every setter but set_invulnerables.
C18_SettersButInvulnerablesRejectSameValue ==
    [][ (SameValue(lastOp') /\ lastOp'.op # "set_invulnerables") =>
          /\ lastOp'.err = "NoWritingSameValue"
          /\ UNCHANGED chainState
          /\ events' = <<>> ]_vars

\* what a replica that holds the storage st at block b makes of the logged
\* call op: the storage and the events after it
Replay(st, b, op) ==
    IF op.op = "on_finalize" THEN award_points_to_block_author(st, op.who)
    ELSE IF op.op = "new_session"
    THEN new_session(st, b, DrainFirst(st, SatSub(st.Round.current + 1, RewardPaymentDelay)))
    ELSE IF op.op = "delegate_with_auto_compound"
    THEN IF delegate_with_auto_compoundErr(st, op.target, op.who, op.amount, op.hint[4],
                                           op.hint[1], op.hint[2], op.hint[3]) = "Ok"
         THEN delegate_with_auto_compoundDo(st, op.target, op.who, op.amount, op.hint[4])
         ELSE st
    ELSE IF op.op = "join_candidates"
    THEN IF join_candidatesErr(st, op.who, op.amount, op.hint) = "Ok"
         THEN join_candidatesDo(st, op.who, op.amount)
         ELSE st
    ELSE IF op.op = "set_collator_commission"
    THEN IF set_collator_commissionErr(st, op.amount) = "Ok"
         THEN set_collator_commissionDo(st, op.amount)
         ELSE st
    ELSE st

RECURSIVE CompoundedBy(_)
CompoundedBy(evs) ==
    IF evs = <<>> THEN 0
    ELSE (IF Head(evs)[1] = "Compounded" THEN Head(evs)[4] ELSE 0) + CompoundedBy(Tail(evs))

\* the events named `first` all come before the events named `then`
EventsPrecede(evs, first, then) ==
    \A i, j \in 1..Len(evs) : evs[i][1] \in first /\ evs[j][1] \in then => i < j

\* the snapshots of round `now`
SnapshotsOf(atStake, now) ==
    [k \in {x \in DOMAIN atStake : x[1] = now} |-> atStake[k]]

\* C20: a round-boundary call advances the round, prepares the payout of
\* round current - RewardPaymentDelay, selects and snapshots AtStake[current],
\* records Staked[current] = Total and only then drips the payout: the
\* snapshots and Staked[current] are those of the stake before the call (what
\* the call compounds is added to Total after Staked was recorded), and the
\* events come in the order ReservedForParachainBond, CollatorChosen,
\* Rewarded and Compounded, NewRound.
C20_NewSessionStepOrder ==
    [][ lastOp'.op = "new_session" =>
          /\ Round'.current = Round.current + 1
          /\ events'[Len(events')][1] = "NewRound"
          /\ events'[Len(events')][3] = Round'.current
          /\ SnapshotsOf(AtStake', Round'.current)
                = SnapshotsOf(select_top_candidates(Storage, Round'.current).AtStake,
                              Round'.current)
          /\ Staked'[Round'.current] = Total
          /\ Total' = Staked'[Round'.current] + CompoundedBy(events')
          /\ (\E i \in 1..Len(events') : events'[i][1] = "ReservedForParachainBond")
                => Has(DelayedPayouts', SatSub(Round'.current, RewardPaymentDelay))
                   \/ ~Has(Points', SatSub(Round'.current, RewardPaymentDelay))
          /\ EventsPrecede(events', {"ReservedForParachainBond"}, {"CollatorChosen"})
          /\ EventsPrecede(events', {"CollatorChosen"}, {"Rewarded", "Compounded"})
          /\ EventsPrecede(events', {"CollatorChosen", "Rewarded", "Compounded"},
                           {"NewRound"}) ]_vars

\* a round-boundary call chose collators, then paid and compounded for a
\* delegator of a collator it had just snapshotted: the snapshot and
\* Staked[current] are lower than the stake after the call
C20_Witness ==
    /\ lastOp.op = "new_session"
    /\ \E i, j, k \in 1..Len(events) :
          /\ events[i][1] = "CollatorChosen"
          /\ events[j][1] = "Rewarded"
          /\ events[k][1] = "Compounded" /\ events[k][4] > 0
          /\ <<Round.current, events[k][2]>> \in DOMAIN AtStake
          /\ AtStake[<<Round.current, events[k][2]>>].total
                < CandidateInfo[events[k][2]].total_counted
    /\ Staked[Round.current] < Total

\* the owners of the delegations of a snapshot
SnapshotDelegators(atStake, k) ==
    IF k \in DOMAIN atStake
    THEN {atStake[k].delegations[i].owner : i \in 1..Len(atStake[k].delegations)}
    ELSE {}

\* the AwardedPts entries that a step drains
Drained == (DOMAIN AwardedPts) \ (DOMAIN AwardedPts')

\* C21: one new_session call pays at most one collator: it drains at most one
\* AwardedPts entry and changes no other, and every Rewarded event of the call
\* goes to the drained collator or to a delegator of that collator's snapshot;
\* no other account but the parachain bond account gains balance.
C21_OneCollatorPaidPerSession ==
    [][ lastOp'.op = "new_session" =>
          /\ Cardinality(Drained) <= 1
          /\ \A k \in DOMAIN AwardedPts' : Has(AwardedPts, k) /\ AwardedPts'[k] = AwardedPts[k]
          /\ \A k \in Drained : k[1] = SatSub(Round'.current, RewardPaymentDelay)
          /\ \A i \in 1..Len(events') :
                events'[i][1] = "Rewarded" =>
                    \E k \in Drained :
                        events'[i][2] \in {k[2]} \cup SnapshotDelegators(AtStake, k)
          /\ \A a \in DOMAIN free_balance :
                free_balance'[a] > free_balance[a] =>
                    \/ a = ParachainBondInfo.account
                    \/ \E k \in Drained : a \in {k[2]} \cup SnapshotDelegators(AtStake, k) ]_vars

\* a session paid one collator and its delegator while another collator of
\* the same round still has its AwardedPts entry
C21_Witness ==
    /\ lastOp.op = "new_session"
    /\ \E c \in Accounts, d \in Accounts, i, j \in 1..Len(events) :
          /\ events[i][1] = "Rewarded" /\ events[i][2] = c
          /\ events[j][1] = "Rewarded" /\ events[j][2] = d
          /\ c # d
          /\ <<SatSub(Round.current, RewardPaymentDelay), c>> \notin DOMAIN AwardedPts
    /\ \E k \in DOMAIN AwardedPts : k[1] = SatSub(Round.current, RewardPaymentDelay)

\* round r loses its DelayedPayouts or its Points entry in this step
Purged(r) ==
    \/ Has(DelayedPayouts, r) /\ ~Has(DelayedPayouts', r)
    \/ Has(Points, r) /\ ~Has(Points', r)

\* C22: DelayedPayouts[r] and Points[r] stay while an AwardedPts[r][c] entry
\* is unpaid (once r has matured, both are there for every unpaid entry), and
\* the only step that removes either is a new_session whose
\* handle_delayed_payouts finds nothing left to pay for r = current -
\* RewardPaymentDelay.
C22_PurgedOnlyOnLastDrip ==
    /\ [](\A k \in DOMAIN AwardedPts :
             /\ Has(Points, k[1])
             /\ k[1] + RewardPaymentDelay <= Round.current => Has(DelayedPayouts, k[1]))
    /\ [][ \A r \in Rounds :
             Purged(r) =>
                /\ lastOp'.op = "new_session"
                /\ r = SatSub(Round'.current, RewardPaymentDelay)
                /\ AwardedIn(Storage, r) = {} \/ GetOr(Points, r, 0) = 0 ]_vars

\* the payout of round r has dripped once and later sessions have passed:
\* an entry of AwardedPts[r] is unpaid and DelayedPayouts[r] and Points[r]
\* are still there
C22_Witness ==
    \E r \in Rounds :
        /\ r + RewardPaymentDelay < Round.current
        /\ GetOr(rewarded, r, 0) > 0
        /\ AwardedIn(Storage, r) # {}
        /\ Has(DelayedPayouts, r) /\ Has(Points, r)

\* the storage entries keyed by round r
KeyedBy(r) ==
    {<<"DelayedPayouts", r>> : x \in {y \in DOMAIN DelayedPayouts : y = r}}
        \cup {<<"Points", r>> : x \in {y \in DOMAIN Points : y = r}}
        \cup {<<"AwardedPts", k>> : k \in AwardedIn(Storage, r)}
        \cup {<<"AtStake", k>> : k \in AtStakeIn(Storage, r)}

\* the rounds that mature early enough for TotalSelected drips and one more
\* session to follow within the rounds explored
PurgeDue == 1..(MaxRound - RewardPaymentDelay - MinSelectedCandidates)

MaturedRoundIsLeftAlone ==
    [][ \A r \in Rounds :
          (r >= 1 /\ r + RewardPaymentDelay <= Round.current) => KeyedBy(r)' = KeyedBy(r) ]_vars

\* C24: when two candidates of the pool have the same amount >= MinCollatorStk
\* and only one of them fits within TotalSelected, the selection of a
\* new_session takes the one with the smaller owner: the larger owner is never
\* selected without the smaller one.
C24_TieGoesToSmallerOwner ==
    [][ lastOp'.op = "new_session" =>
          \A i, j \in 1..Len(CandidatePool) :
              ( /\ CandidatePool[i].amount = CandidatePool[j].amount
                /\ CandidatePool[i].amount >= MinCollatorStk
                /\ CandidatePool[i].owner < CandidatePool[j].owner
                /\ CandidatePool[j].owner \in SeqSet(SelectedCandidates') )
              => CandidatePool[i].owner \in SeqSet(SelectedCandidates') ]_vars

\* what the snapshot of collator c records for its top delegation b, and what
\* it leaves uncounted, given the pending request of the pair
RecordedAmount(c, b) ==
    IF PendingOf(c, b.owner) = {} THEN b.amount
    ELSE IF PendingRequest(c, b.owner).action = "Revoke" THEN 0
    ELSE b.amount - PendingRequest(c, b.owner).amount
UncountedAmount(c, b) ==
    IF PendingOf(c, b.owner) = {} THEN 0
    ELSE IF PendingRequest(c, b.owner).action = "Revoke" THEN b.amount
    ELSE PendingRequest(c, b.owner).amount

\* the auto-compound percent of delegator d for candidate c, 0 if absent
CompoundPercent(c, d) ==
    LET cfgs == {i \in 1..Len(AutoCompoundingDelegations[c]) :
                    AutoCompoundingDelegations[c][i].delegator = d}
    IN IF cfgs = {} THEN 0 ELSE AutoCompoundingDelegations[c][CHOOSE i \in cfgs : TRUE].value

\* C25: for every collator c that a new_session selects, AtStake[round][c] has
\* bond = c.bond, one entry per top delegation (d, A) recording 0 under a
\* pending Revoke, A - x under a pending Decrease(x) and A otherwise, tagged
\* with the auto-compound percent of (c, d), and total = c.total_counted minus
\* the uncounted stake (A per revoke, x per decrease) = bond + the recorded
\* amounts.
C25_SnapshotAdjustsForRequests ==
    [][ (lastOp'.op = "new_session" /\ lastOp'.ret # Some(<<>>)) =>
          \A c \in SeqSet(SelectedCandidates') :
              LET snap == AtStake'[<<Round'.current, c>>]
                  top == TopDelegations[c].delegations
              IN /\ snap.bond = CandidateInfo[c].bond
                 /\ Len(snap.delegations) = Len(top)
                 /\ \A i \in 1..Len(top) :
                       /\ snap.delegations[i].owner = top[i].owner
                       /\ snap.delegations[i].amount = RecordedAmount(c, top[i])
                       /\ snap.delegations[i].auto_compound = CompoundPercent(c, top[i].owner)
                 /\ snap.total = CandidateInfo[c].total_counted
                                    - SumOver(1..Len(top),
                                              [i \in 1..Len(top) |-> UncountedAmount(c, top[i])])
                 /\ snap.total = snap.bond + SumSeq(snap.delegations) ]_vars

\* a new_session snapshotted a collator whose auto-compounding top delegator
\* has a pending Decrease: the recorded amount is lower than the delegation
\* and not zero
C25_Witness ==
    /\ lastOp.op = "new_session"
    /\ \E c \in SeqSet(SelectedCandidates) :
          /\ Has(AtStake, <<Round.current, c>>)
          /\ Len(TopDelegations[c].delegations) = 1
          /\ Len(AtStake[<<Round.current, c>>].delegations) = 1
          /\ LET b == TopDelegations[c].delegations[1]
                 rec == AtStake[<<Round.current, c>>].delegations[1]
             IN /\ PendingOf(c, b.owner) # {}
                /\ PendingRequest(c, b.owner).action # "Revoke"
                /\ rec.owner = b.owner
                /\ rec.amount > 0 /\ rec.amount < b.amount
                /\ rec.auto_compound > 0
                /\ AtStake[<<Round.current, c>>].total < CandidateInfo[c].total_counted

\* what the Rewarded events of a call mint to account a
RECURSIVE RewardedTo(_, _)
RewardedTo(evs, a) ==
    IF evs = <<>> THEN 0
    ELSE (IF Head(evs)[1] = "Rewarded" /\ Head(evs)[2] = a THEN Head(evs)[3] ELSE 0)
             + RewardedTo(Tail(evs), a)

\* the payout of this step for the drained entry k = <<r, c>> is split as the
\* claim says, with `rest` standing for total_paid - commission
PaidAsSplit(k, saturating) ==
    LET r == k[1]
        c == k[2]
        payout == DelayedPayouts'[r]
        snap == GetOr(AtStake, k, DefaultSnapshot)
        share == PerbillFromRational(AwardedPts[k], Points[r])
        total_paid == PerbillMul(share, payout.total_staking_reward)
        commission == PerbillMul(share, PerbillMul(payout.collator_commission,
                                                   payout.round_issuance))
        rest == IF saturating THEN SatSub(total_paid, commission) ELSE total_paid - commission
    IN IF snap.delegations = <<>>
       THEN RewardedTo(events', c) = total_paid
       ELSE /\ RewardedTo(events', c)
                 = commission + PerbillMul(PerbillFromRational(snap.bond, snap.total), rest)
            /\ \A i \in 1..Len(snap.delegations) :
                  RewardedTo(events', snap.delegations[i].owner)
                      = PerbillMul(PerbillFromRational(snap.delegations[i].amount, snap.total),
                                   rest)

\* C26: when collator c with p points is paid for round r, with share = p /
\* Points[r], total_paid = share * total_staking_reward and commission = share
\* * collator_commission * round_issuance: without snapshot delegators c is
\* minted total_paid; otherwise c is minted commission + (bond / snap.total) *
\* (total_paid - commission) and every snapshot delegator (d, A) is minted (A /
\* snap.total) * (total_paid - commission), nothing when A = 0.
C26_PayoutSplit ==
    [][ lastOp'.op = "new_session" => \A k \in Drained : PaidAsSplit(k, FALSE) ]_vars

\* the split with total_paid - commission saturating at zero, as
\* pay_one_collator_reward computes it
PayoutSplitSaturating ==
    [][ lastOp'.op = "new_session" => \A k \in Drained : PaidAsSplit(k, TRUE) ]_vars

\* the amount that delegator d has delegated to candidate c in the delegator
\* states ds, 0 when there is no such delegation
DelegatedTo(ds, d, c) ==
    IF d \in DOMAIN ds /\ c \in Owners(ds[d].delegations)
    THEN BondOf(ds[d].delegations, c).amount ELSE 0

\* a revoke of d's delegation to c is pending
RevokePending(c, d) == PendingOf(c, d) # {} /\ PendingRequest(c, d).action = "Revoke"

\* ceil(pct * x / 100)
CeilPercent(pct, x) == (pct * x + PercentMax - 1) \div PercentMax

\* the bucket of the candidate that holds delegator d records the amount amt,
\* and the buckets are within their bounds with no bottom delegation above a
\* top one
PlacedInBucket(topDelegations, bottomDelegations, info, d, amt) ==
    LET top == topDelegations.delegations
        bottom == bottomDelegations.delegations
    IN /\ \/ d \in Owners(top) /\ BondOf(top, d).amount = amt /\ d \notin Owners(bottom)
          \/ d \in Owners(bottom) /\ BondOf(bottom, d).amount = amt /\ d \notin Owners(top)
       /\ Len(top) <= MaxTopDelegationsPerCandidate
       /\ Len(bottom) <= MaxBottomDelegationsPerCandidate
       /\ \A i \in 1..Len(top), j \in 1..Len(bottom) : top[i].amount >= bottom[j].amount
       /\ topDelegations.total = SumSeq(top)
       /\ info.total_counted = info.bond + SumSeq(top)

\* C27: when a snapshot delegator d of the paid collator c with snapshot
\* percent > 0 is minted due > 0, no Revoke of (c, d) is pending and d still
\* delegates to c, the delegation, d.total, d's lock and Total grow by exactly
\* ceil(percent * due), the delegation sits in a bucket of c according to the
\* placement rules, and the Compounded event follows the Rewarded event at
\* once; with percent = 0 the delegation is unchanged.
C27_CompoundAddsCeilOfPercent ==
    [][ lastOp'.op = "new_session" =>
          \A k \in Drained \cap DOMAIN AtStake :
              \A i \in 1..Len(AtStake[k].delegations) :
                  LET c == k[2]
                      d == AtStake[k].delegations[i].owner
                      pct == AtStake[k].delegations[i].auto_compound
                      due == RewardedTo(events', d)
                      more == CeilPercent(pct, due)
                  IN /\ ( /\ pct > 0 /\ due > 0
                          /\ ~RevokePending(c, d)
                          /\ DelegatedTo(DelegatorState, d, c) > 0 )
                        => /\ DelegatedTo(DelegatorState', d, c)
                                = DelegatedTo(DelegatorState, d, c) + more
                           /\ DelegatorState'[d].total = DelegatorState[d].total + more
                           /\ delegator_lock'[d] = delegator_lock[d] + more
                           /\ Total' = Total + more
                           /\ PlacedInBucket(TopDelegations'[c], BottomDelegations'[c], CandidateInfo'[c],
                                             d, DelegatedTo(DelegatorState, d, c) + more)
                           /\ \E j \in 1..(Len(events') - 1) :
                                 /\ events'[j] = <<"Rewarded", d, due>>
                                 /\ events'[j + 1] = <<"Compounded", c, d, more>>
                     /\ pct = 0 =>
                           /\ DelegatedTo(DelegatorState', d, c) = DelegatedTo(DelegatorState, d, c)
                           /\ \A j \in 1..Len(events') : events'[j][1] # "Compounded" ]_vars

\* a payout compounded 1% of a reward of 320, rounded up to 4, for a
\* delegation that had been moved to the bottom bucket: the delegation is 6
\* now and has taken the top place
C27_Witness ==
    /\ lastOp.op = "new_session"
    /\ \E j \in 1..(Len(events) - 1) :
          /\ events[j][1] = "Rewarded" /\ events[j][2] = NumAccounts
          /\ events[j + 1][1] = "Compounded" /\ events[j + 1][3] = NumAccounts
          /\ events[j + 1][4] * PercentMax > LowPercent * events[j][3]
          /\ events[j + 1][4] < events[j][3]
    /\ InTop(Storage, 1, NumAccounts)
    /\ BottomDelegations[1].delegations # <<>>

\* what the i-th delegator of the snapshot of the drained entry k = <<r, c>>
\* is due: its share of what is left of total_paid after the commission
DelegatorDue(k, i) ==
    LET payout == DelayedPayouts'[k[1]]
        snap == AtStake[k]
        share == PerbillFromRational(AwardedPts[k], Points[k[1]])
        total_paid == PerbillMul(share, payout.total_staking_reward)
        commission == PerbillMul(share, PerbillMul(payout.collator_commission,
                                                   payout.round_issuance))
    IN PerbillMul(PerbillFromRational(snap.delegations[i].amount, snap.total),
                  SatSub(total_paid, commission))

\* the entry of delegator d in a bucket, <<>> when it has none
BucketEntry(bucket, d) ==
    IF d \in Owners(bucket.delegations) THEN <<BondOf(bucket.delegations, d).amount>> ELSE <<>>

\* the bond-more step of the compounding of d's reward for c fails
CompoundFails(c, d) ==
    \/ RevokePending(c, d)
    \/ DelegatedTo(DelegatorState, d, c) = 0
    \/ c \notin DOMAIN CandidateInfo

\* C28: when the bond-more step of auto-compounding fails at payout (pending
\* Revoke of (c, d), delegator or delegation gone, candidate gone), the reward
\* stays minted with its Rewarded event, there is no Compounded event for d,
\* d's delegations, total, lock and bucket entries are unchanged, Total grows
\* only by what the call compounded for others, every snapshot delegator is
\* still paid its share, and the other delegators of the snapshot whose
\* bond-more step does not fail are compounded as usual.
C28_FailedCompoundKeepsReward ==
    [][ lastOp'.op = "new_session" =>
          \A k \in Drained \cap DOMAIN AtStake :
              \A i \in 1..Len(AtStake[k].delegations) :
                  LET c == k[2]
                      d == AtStake[k].delegations[i].owner
                      pct == AtStake[k].delegations[i].auto_compound
                      due == DelegatorDue(k, i)
                  IN (pct > 0 /\ due > 0 /\ CompoundFails(c, d)) =>
                        /\ free_balance'[d] = free_balance[d] + due
                        /\ \E j \in 1..Len(events') : events'[j] = <<"Rewarded", d, due>>
                        /\ \A j \in 1..Len(events') :
                              ~(events'[j][1] = "Compounded" /\ events'[j][3] = d)
                        /\ (d \in DOMAIN DelegatorState') = (d \in DOMAIN DelegatorState)
                        /\ d \in DOMAIN DelegatorState => DelegatorState'[d] = DelegatorState[d]
                        /\ delegator_lock'[d] = delegator_lock[d]
                        /\ (c \in DOMAIN CandidateInfo') = (c \in DOMAIN CandidateInfo)
                        /\ c \in DOMAIN CandidateInfo =>
                              /\ BucketEntry(TopDelegations'[c], d) = BucketEntry(TopDelegations[c], d)
                              /\ BucketEntry(BottomDelegations'[c], d)
                                    = BucketEntry(BottomDelegations[c], d)
                        /\ Total' = Total + CompoundedBy(events')
                        /\ PaidAsSplit(k, TRUE)
                        /\ \A i2 \in 1..Len(AtStake[k].delegations) :
                              LET d2 == AtStake[k].delegations[i2].owner
                                  pct2 == AtStake[k].delegations[i2].auto_compound
                                  due2 == DelegatorDue(k, i2)
                              IN (i2 # i /\ pct2 > 0 /\ due2 > 0 /\ ~CompoundFails(c, d2)) =>
                                    \E j \in 1..(Len(events') - 1) :
                                        /\ events'[j] = <<"Rewarded", d2, due2>>
                                        /\ events'[j + 1]
                                              = <<"Compounded", c, d2, CeilPercent(pct2, due2)>> ]_vars

\* a payout in the runtime with two top places rewarded a delegator that
\* auto-compounds and has a pending revoke, without compounding, and then
\* rewarded and compounded the delegator after it in the snapshot
C28_Witness ==
    /\ lastOp.op = "new_session"
    /\ \E d, d2 \in {NumAccounts - 1, NumAccounts} :
          /\ d # d2
          /\ RevokePending(1, d)
          /\ CompoundPercent(1, d) > 0
          /\ \A j \in 1..Len(events) : ~(events[j][1] = "Compounded" /\ events[j][3] = d)
          /\ \E j \in 1..(Len(events) - 2) :
                /\ events[j][1] = "Rewarded" /\ events[j][2] = d /\ events[j][3] > 0
                /\ events[j + 1][1] = "Rewarded" /\ events[j + 1][2] = d2
                /\ events[j + 2] = <<"Compounded", 1, d2, events[j + 1][3]>>

\* what this step mints to the parachain bond account apart from rewards
MintedToBond ==
    LET account == ParachainBondInfo.account
    IN IF account \in DOMAIN free_balance
       THEN free_balance'[account] - free_balance[account] - RewardedTo(events', account)
       ELSE 0

\* C29: when a new_session prepares the payout of round r = current -
\* RewardPaymentDelay, DelayedPayouts[r].total_staking_reward is the round
\* issuance minus what was minted to the parachain bond account: percent *
\* issuance, with a ReservedForParachainBond event, when the account exists,
\* and nothing, without the event, when the deposit fails; in both cases the
\* round advances and DelayedPayouts[r] is recorded for a round with points.
C29_ReserveDeductedOnlyWhenMinted ==
    [][ lastOp'.op = "new_session" =>
          LET r == SatSub(Round.current + 1, RewardPaymentDelay)
              reserve == PercentMul(ParachainBondInfo.percent, DelayedPayouts'[r].round_issuance)
              reserved == <<"ReservedForParachainBond", ParachainBondInfo.account, reserve>>
          IN /\ Round'.current = Round.current + 1
             /\ events'[Len(events')][1] = "NewRound"
             /\ (r >= 1 /\ GetOr(Points, r, 0) > 0) => Has(DelayedPayouts', r)
             /\ (Has(DelayedPayouts', r) /\ ~Has(DelayedPayouts, r)) =>
                   /\ DelayedPayouts'[r].round_issuance
                         = compute_issuance(Storage, GetOr(Staked, r, 0))
                   /\ DelayedPayouts'[r].total_staking_reward
                         = DelayedPayouts'[r].round_issuance - MintedToBond
                   /\ IF AccountExists(Storage, ParachainBondInfo.account) \/ reserve = 0
                      THEN /\ MintedToBond = reserve
                           /\ \E i \in 1..Len(events') : events'[i] = reserved
                      ELSE /\ MintedToBond = 0
                           /\ \A i \in 1..Len(events') :
                                 events'[i][1] # "ReservedForParachainBond" ]_vars

\* a new_session prepared a payout while the parachain bond account did not
\* exist: nothing was reserved, the whole issuance is the staking reward, and
\* the round advanced and paid
C29_Witness ==
    /\ lastOp.op = "new_session"
    /\ ~AccountExists(Storage, ParachainBondInfo.account)
    /\ ParachainBondInfo.percent > 0
    /\ Has(DelayedPayouts, SatSub(Round.current, RewardPaymentDelay))
    /\ LET payout == DelayedPayouts[SatSub(Round.current, RewardPaymentDelay)]
       IN payout.round_issuance > 0 /\ payout.total_staking_reward = payout.round_issuance
    /\ \A i \in 1..Len(events) : events[i][1] # "ReservedForParachainBond"
    /\ \E i \in 1..Len(events) : events[i][1] = "Rewarded"
    /\ events[Len(events)][1] = "NewRound"

\* the sum of the AwardedPts entries of round r
AwardedSum(r) == SumOver(AwardedIn(Storage, r), AwardedPts)

\* C30: each finalized block adds exactly 20 to AwardedPts[current][author]
\* and 20 to Points[current] and touches no other entry; no step adds points
\* to a round other than the current one; and for every round whose payout
\* has not started (r + RewardPaymentDelay > current) Points[r] is the sum of
\* the AwardedPts[r][c].
C30_PointsAccrual ==
    /\ [](\A r \in Rounds :
             r + RewardPaymentDelay > Round.current => GetOr(Points, r, 0) = AwardedSum(r))
    /\ [][ /\ lastOp'.op = "on_finalize" =>
                /\ Round' = Round
                /\ AwardedPts' = Put(AwardedPts, <<Round.current, lastOp'.who>>,
                                     GetOr(AwardedPts, <<Round.current, lastOp'.who>>, 0) + 20)
                /\ Points' = Put(Points, Round.current, GetOr(Points, Round.current, 0) + 20)
           /\ \A k \in DOMAIN AwardedPts' :
                 AwardedPts'[k] > GetOr(AwardedPts, k, 0) =>
                    lastOp'.op = "on_finalize" /\ k[1] = Round.current
           /\ \A r \in DOMAIN Points' :
                 Points'[r] > GetOr(Points, r, 0) =>
                    lastOp'.op = "on_finalize" /\ r = Round.current ]_vars

\* a block was finalized in a round in which its author already had points
\* and the other collator has points too
C30_Witness ==
    /\ lastOp.op = "on_finalize"
    /\ Round.current > 1
    /\ \E a \in Accounts \ {lastOp.who} : Has(AwardedPts, <<Round.current, a>>)
    /\ Has(AwardedPts, <<Round.current, lastOp.who>>)
    /\ AwardedPts[<<Round.current, lastOp.who>>] >= 40
    /\ Points[Round.current] >= 60

\* the status of account c in a CandidateInfo map, "None" when it is no candidate
StatusOf(info, c) == IF c \in DOMAIN info THEN info[c].status ELSE "None"

\* the transition table of the candidate status: operation, from, to
TransitionTable ==
    { <<"go_offline", "Active", "Idle">>,
      <<"go_online", "Idle", "Active">>,
      <<"schedule_leave_candidates", "Active", "Leaving">>,
      <<"schedule_leave_candidates", "Idle", "Leaving">>,
      <<"cancel_leave_candidates", "Leaving", "Active">> }

\* C31: the status of an account that stays a candidate changes only by a
\* successful call of its own along the transition table; go_offline of a
\* candidate succeeds exactly from Active (else AlreadyOffline) and yields
\* Idle; go_online succeeds exactly from Idle (AlreadyActive from Active,
\* CannotGoOnlineIfLeaving from Leaving) and yields Active;
\* schedule_leave_candidates succeeds only when not Leaving and yields
\* Leaving; cancel_leave_candidates succeeds only from Leaving (else
\* CandidateNotLeaving) and yields Active with a pool entry of amount
\* total_counted.
C31_StatusTransitions ==
    [][ LET c == lastOp'.who
            before == StatusOf(CandidateInfo, c)
            after == StatusOf(CandidateInfo', c)
            ok == lastOp'.err = "Ok"
        IN /\ \A a \in Accounts :
                 LET from == StatusOf(CandidateInfo, a)
                     to == StatusOf(CandidateInfo', a)
                 IN (from # "None" /\ to # "None" /\ from # to) =>
                       /\ a = c /\ ok
                       /\ <<lastOp'.op, from, to>> \in TransitionTable
           /\ (lastOp'.op = "go_offline" /\ before # "None") =>
                 /\ ok <=> before = "Active"
                 /\ ~ok => lastOp'.err = "AlreadyOffline"
                 /\ ok => after = "Idle"
           /\ (lastOp'.op = "go_online" /\ before # "None") =>
                 /\ ok <=> before = "Idle"
                 /\ before = "Active" => lastOp'.err = "AlreadyActive"
                 /\ before = "Leaving" => lastOp'.err = "CannotGoOnlineIfLeaving"
                 /\ ok => after = "Active"
           /\ (lastOp'.op = "schedule_leave_candidates" /\ before # "None") =>
                 /\ ok => before # "Leaving" /\ after = "Leaving"
                 /\ before = "Leaving" => ~ok
           /\ (lastOp'.op = "cancel_leave_candidates" /\ before # "None") =>
                 /\ ok => before = "Leaving"
                 /\ before # "Leaving" => lastOp'.err = "CandidateNotLeaving"
                 /\ ok => /\ after = "Active"
                          /\ OrderedSetContains(CandidatePool', c)
                          /\ BondOf(CandidatePool', c).amount
                                = CandidateInfo'[c].total_counted ]_vars

\* a candidate with a counted delegation cancelled its exit: it is Active
\* again and its pool entry holds bond plus delegation
C31_Witness ==
    /\ lastOp.op = "cancel_leave_candidates" /\ lastOp.err = "Ok"
    /\ IsActive(CandidateInfo[lastOp.who])
    /\ CandidateInfo[lastOp.who].total_counted > CandidateInfo[lastOp.who].bond
    /\ BondOf(CandidatePool, lastOp.who).amount = CandidateInfo[lastOp.who].total_counted

\* C32: every candidate's total_counted is its bond plus the total of its
\* top delegations, and a candidate in the pool has a pool entry whose amount
\* is its total_counted.
C32_TotalCountedIsBondPlusTop ==
    \A c \in DOMAIN CandidateInfo :
        /\ CandidateInfo[c].total_counted = CandidateInfo[c].bond + TopDelegations[c].total
        /\ OrderedSetContains(CandidatePool, c) =>
              BondOf(CandidatePool, c).amount = CandidateInfo[c].total_counted

\* a payout compounded a reward into the top delegation of candidate 1, whose
\* self bond had been raised: its pool entry holds the raised bond plus the
\* grown top delegation
C32_Witness ==
    /\ lastOp.op = "new_session"
    /\ \E j \in 1..Len(events) : events[j][1] = "Compounded" /\ events[j][2] = 1
    /\ 1 \in DOMAIN CandidateInfo
    /\ CandidateInfo[1].bond > GenesisBond
    /\ TopDelegations[1].total > StakeOf(NumAccounts)
    /\ OrderedSetContains(CandidatePool, 1)
    /\ BondOf(CandidatePool, 1).amount = CandidateInfo[1].bond + TopDelegations[1].total

\* C33: an account that is not a candidate has no top or bottom bucket, no
\* pending scheduled request and no auto-compound entry keyed by it, no
\* collator lock, and no delegator holds a delegation to it; no delegator
\* is left with zero delegations.
C33_ExitCleanup ==
    /\ \A a \in Accounts :
          ~is_candidate(Storage, a) =>
              /\ a \notin DOMAIN TopDelegations
              /\ a \notin DOMAIN BottomDelegations
              /\ DelegationScheduledRequests[a] = <<>>
              /\ AutoCompoundingDelegations[a] = <<>>
              /\ collator_lock[a] = 0
              /\ \A d \in DOMAIN DelegatorState : a \notin Owners(DelegatorState[d].delegations)
    /\ \A d \in DOMAIN DelegatorState : DelegatorState[d].delegations # <<>>

\* candidate 1 has left with a top and a bottom delegation returned (more
\* than its bond and the largest stake was unlocked): the delegator that also
\* delegates to candidate 2 is kept with that delegation only, the others are
\* deleted
C33_Witness ==
    /\ lastOp.op = "execute_leave_candidates" /\ lastOp.err = "Ok" /\ lastOp.target = 1
    /\ \E j \in 1..Len(events) :
          /\ events[j][1] = "CandidateLeft"
          /\ events[j][3] > GenesisBond + LockStakeOf(NumAccounts)
    /\ DOMAIN DelegatorState = {NumAccounts - 1}
    /\ Owners(DelegatorState[NumAccounts - 1].delegations) = {2}

\* the bonds of account c's bucket in a bucket map, none when c has no bucket
BucketBonds(buckets, c) == IF c \in DOMAIN buckets THEN buckets[c].delegations ELSE <<>>

\* the positions of the bonds of owner d in a list of bonds
PositionsOf(bonds, d) == {i \in 1..Len(bonds) : bonds[i].owner = d}

\* C34: for every account c and delegator d, d has at most one bond in the
\* top and bottom buckets of c together, and it has one with amount A exactly
\* when DelegatorState[d] exists and holds a delegation to c of amount A; so
\* every owner of a bucket bond has a DelegatorState entry.
C34_EdgeConsistency ==
    \A c \in Accounts, d \in Accounts :
        LET top == BucketBonds(TopDelegations, c)
            bottom == BucketBonds(BottomDelegations, c)
            entries == Cardinality(PositionsOf(top, d)) + Cardinality(PositionsOf(bottom, d))
        IN /\ entries <= 1
           /\ (entries = 1) <=> (DelegatedTo(DelegatorState, d, c) > 0)
           /\ d \in DOMAIN DelegatorState =>
                 Cardinality(PositionsOf(DelegatorState[d].delegations, c)) <= 1
           /\ \A i \in PositionsOf(top, d) : top[i].amount = DelegatedTo(DelegatorState, d, c)
           /\ \A i \in PositionsOf(bottom, d) :
                 bottom[i].amount = DelegatedTo(DelegatorState, d, c)

\* after a payout that compounded a reward, candidate 1 has a top and a
\* bottom delegation of different delegators, one of whom also delegates to
\* candidate 2
C34_Witness ==
    /\ lastOp.op = "new_session"
    /\ \E j \in 1..Len(events) : events[j][1] = "Compounded"
    /\ 1 \in DOMAIN CandidateInfo
    /\ Len(TopDelegations[1].delegations) = 1
    /\ Len(BottomDelegations[1].delegations) = 1
    /\ TopDelegations[1].delegations[1].amount > LockStakeOf(NumAccounts)
    /\ \E d \in DOMAIN DelegatorState : Len(DelegatorState[d].delegations) = 2

\* C35: a snapshot AtStake[r][c] keeps its value for as long as it exists; it
\* is written only by the new_session that starts round r and removed only by
\* a new_session that pays c for round r or cleans round r up.
C35_SnapshotIsImmutable ==
    [][ /\ \A k \in DOMAIN AtStake :
              IF k \in DOMAIN AtStake'
              THEN AtStake'[k] = AtStake[k]
              ELSE /\ lastOp'.op = "new_session"
                   /\ k[1] = SatSub(Round'.current, RewardPaymentDelay)
                   /\ k \in Drained \/ DelayedPayouts' = Remove(DelayedPayouts, k[1])
        /\ \A k \in (DOMAIN AtStake') \ (DOMAIN AtStake) :
              /\ lastOp'.op = "new_session"
              /\ Round'.current = Round.current + 1
              /\ k[1] = Round'.current ]_vars

\* an executed request has just changed the delegations of candidate 1 while
\* the snapshot of an earlier round still shows a delegator that no longer
\* delegates to it
C35_Witness ==
    /\ lastOp.op = "execute_delegation_request" /\ lastOp.err = "Ok"
    /\ \E k \in DOMAIN AtStake :
          /\ k[2] = 1
          /\ k[1] < Round.current
          /\ \E i \in 1..Len(AtStake[k].delegations) :
                DelegatedTo(DelegatorState, AtStake[k].delegations[i].owner, 1) = 0

\* the Rewarded and Compounded events of a list of events, in order
PaymentsOf(evs) == SelectSeq(evs, LAMBDA e : e[1] \in {"Rewarded", "Compounded"})

\* the storages that a successful set_collator_commission, set_inflation or
\* set_parachain_bond_reserve_percent call makes of st
AfterLaterCall(st) ==
    {set_collator_commissionDo(st, new) :
        new \in {GenesisCollatorCommission, HighCommission}}
    \cup {set_parachain_bond_reserve_percentDo(st, new) :
            new \in {GenesisParachainBondReservePercent, HalfPercent}}
    \cup {set_inflationDo(st, schedule) :
            schedule \in {GenesisInflationConfig.annual, FlatSchedule}}

\* C36: DelayedPayouts[r] is written only by the new_session that starts
\* round r + RewardPaymentDelay, with the commission in force then, and is not
\* changed afterwards; set_collator_commission, set_inflation and
\* set_parachain_bond_reserve_percent pay nothing and leave every record as
\* it is; and what a payout for round r pays is what it would pay had one of
\* these calls been made between the writing of the record and the payout.
C36_DelayedPayoutFixesCommission ==
    [][ /\ \A r \in DOMAIN DelayedPayouts :
              IF r \in DOMAIN DelayedPayouts'
              THEN DelayedPayouts'[r] = DelayedPayouts[r]
              ELSE lastOp'.op = "new_session"
        /\ \A r \in (DOMAIN DelayedPayouts') \ (DOMAIN DelayedPayouts) :
              /\ lastOp'.op = "new_session"
              /\ Round'.current = Round.current + 1
              /\ r + RewardPaymentDelay = Round'.current
              /\ DelayedPayouts'[r].collator_commission = CollatorCommission
        /\ lastOp'.op \in {"set_collator_commission", "set_inflation",
                           "set_parachain_bond_reserve_percent"} =>
              /\ rewarded' = rewarded
              /\ free_balance' = free_balance
              /\ PaymentsOf(events') = <<>>
        /\ lastOp'.op = "new_session" =>
              \A k \in Drained :
                  /\ Has(DelayedPayouts', k[1])
                  /\ \A later \in AfterLaterCall(new_sessionSelected(Storage, lastOp'.amount)) :
                        \E paid \in {handle_delayed_payouts(later, Round'.current, k[2])} :
                            /\ PaymentsOf(paid.events) = PaymentsOf(events')
                            /\ paid.free_balance = free_balance'
                            /\ paid.rewarded = rewarded' ]_vars

\* governance has just changed the commission while a written record holds
\* the old one for a round that has paid a collator and its delegator and
\* still has an unpaid collator
C36_Witness ==
    /\ lastOp.op = "set_collator_commission" /\ lastOp.err = "Ok"
    /\ \E r \in DOMAIN DelayedPayouts :
          /\ DelayedPayouts[r].collator_commission # CollatorCommission
          /\ GetOr(rewarded, r, 0) > 0
          /\ AwardedIn(Storage, r) # {}
    /\ NumAccounts \in DOMAIN DelegatorState
    /\ free_balance[NumAccounts] > InitialBalance

\* total_paid of the payout of this step for the drained entry k = <<r, c>>:
\* the collator's share of the points times the round's total_staking_reward
TotalPaid(k) ==
    PerbillMul(PerbillFromRational(AwardedPts[k], Points[k[1]]),
               DelayedPayouts'[k[1]].total_staking_reward)

\* C37: in one collator payout the collator's reward and the delegators' dues
\* together never exceed total_paid.
C37_PayoutWithinTotalPaid ==
    [][ lastOp'.op = "new_session" =>
          \A k \in Drained :
              SumOver(Accounts, [a \in Accounts |-> RewardedTo(events', a)]) <= TotalPaid(k) ]_vars

\* C38: every account in SelectedCandidates has a snapshot for the current
\* round, which is the round that a fallback of the next selection looks up,
\* and no selection, the one of genesis included, has failed that lookup.
C38_SelectedHaveSnapshots ==
    /\ \A c \in SeqSet(SelectedCandidates) : Has(AtStake, <<Round.current, c>>)
    /\ \A j \in 1..Len(events) : events[j][1] # "Panic"

\* a fallback after the second round has just kept a selected set of two and
\* announced both from their snapshots, in a session whose payout took the
\* snapshot of an earlier round
C38_Witness ==
    /\ lastOp.op = "new_session"
    /\ compute_top_candidates(Storage) = <<>>
    /\ Len(SelectedCandidates) = 2
    /\ Round.current > RewardPaymentDelay + 1
    /\ \E j \in 1..Len(events) : events[j][1] = "Rewarded"
    /\ \A c \in SeqSet(SelectedCandidates) :
          \E j \in 1..Len(events) :
              events[j] = <<"CollatorChosen", Round.current, c,
                            AtStake[<<Round.current - 1, c>>].total>>

\* no account is both a candidate and a delegator
RoleExclusive == (DOMAIN CandidateInfo) \cap (DOMAIN DelegatorState) = {}

EligibleIn(selected, author, relay_parent) ==
    IF /\ lookup_account(author) # None
       /\ selected # <<>>
       /\ lookup_account(author)[1] = selected[((relay_parent \div 2) % Len(selected)) + 1]
    THEN "true" ELSE "false"

\* C40: the prediction that can_author makes on the state before a
\* new_session is, for every nimbus key and slot, defined and the eligibility
\* in the SelectedCandidates that this new_session installs, also when
\* compute_top_candidates is empty and the selection falls back.
C40_PredictionMatchesInstalledSet ==
    [][lastOp'.op = "new_session" =>
          \A author \in NimbusIds, relay_parent \in 0..MaxSlot :
              /\ can_author(Storage, author, relay_parent) # "Panic"
              /\ can_author(Storage, author, relay_parent)
                    = EligibleIn(SelectedCandidates', author, relay_parent)]_vars

\* the same for the sessions in which a candidate can be selected
C40_PredictionWhenSelectable ==
    [][(lastOp'.op = "new_session" /\ compute_top_candidates(Storage) # <<>>) =>
          \A author \in NimbusIds, relay_parent \in 0..MaxSlot :
              can_author(Storage, author, relay_parent)
                  = EligibleIn(SelectedCandidates', author, relay_parent)]_vars

\* a new_session has fallen back to a previous set that is not empty: no
\* candidate was selectable in the state a prediction would have read
C40_FallbackKeepsAuthors ==
    /\ lastOp.op = "new_session"
    /\ lastOp.ret = Some(<<>>)
    /\ SelectedCandidates # <<>>

====
